---- MODULE Spec2Model ----
(***************************************************************************)
(* Model of the ledger-desktop backend:                                    *)
(*   - the process actor of src/src/ledger.rs (run_actor, Ledger,          *)
(*     LedgerHandle) together with the subprocess and its three pipes,     *)
(*   - the incremental S-expression parser of src/src/sexpr.rs.            *)
(* Text is a sequence of one-character strings; the tokens                 *)
(* "__END_OF_RESPONSE__" and "echo " are kept as one symbol each.          *)
(***************************************************************************)
EXTENDS Integers, Sequences, FiniteSets, Bags, TLC

\* ------------------------------------------------------------------------
\* Bounds of the model
\* ------------------------------------------------------------------------
\* number of send() calls made by the submitters
MaxCmds == 2

\* number of lines, sentinels aside, the subprocess prints in a session
MaxOut == 2

\* ------------------------------------------------------------------------
\* Program constants
\* ------------------------------------------------------------------------
MARKER == <<"__END_OF_RESPONSE__">>

CmdQueueCap == 16

ResponseCap == 64

NL == "\n"

\* the line written after every command: "echo " MARKER "\n"
EchoLine == <<"echo ">> \o MARKER \o <<NL>>

\* the line the subprocess prints when it executes the echo
SentinelLine == MARKER \o <<NL>>

\* command texts handed to send(): the empty command and a report command
CmdTexts == { <<>>, <<"b", "a", "l">> }

\* the n-th line of a response, when the subprocess prints it on stdout
StdoutText(n) == << <<"a", "b", "c", "d">>[((n - 1) % 4) + 1], NL >>

\* the n-th line of a response, when the subprocess prints it on stderr
StderrText(n) == << " ", <<"E", "F", "G", "H">>[((n - 1) % 4) + 1], NL >>

\* ------------------------------------------------------------------------
\* Text helpers
\* ------------------------------------------------------------------------
\* char::is_whitespace on the characters of the model
IsWhitespace(c) == c \in {" ", NL, "\t"}

RECURSIVE TrimStart(_)
TrimStart(s) ==
  IF s # <<>> /\ IsWhitespace(Head(s)) THEN TrimStart(Tail(s)) ELSE s

RECURSIVE TrimEnd(_)
TrimEnd(s) ==
  IF s # <<>> /\ IsWhitespace(s[Len(s)])
  THEN TrimEnd(SubSeq(s, 1, Len(s) - 1))
  ELSE s

\* str::trim
Trim(s) == TrimEnd(TrimStart(s))

\* [String]::join("") over the texts of the buffered stderr items
RECURSIVE JoinTexts(_)
JoinTexts(items) ==
  IF items = <<>> THEN <<>> ELSE Head(items).text \o JoinTexts(Tail(items))

\* buf.strip_suffix(b"\n").unwrap_or(&buf)
StripNewline(buf) ==
  IF buf # <<>> /\ buf[Len(buf)] = NL THEN SubSeq(buf, 1, Len(buf) - 1) ELSE buf

\* the test used by drain, read_either and read_line on a line that was read
IsMarkerLine(buf) == StripNewline(buf) = MARKER

\* the command ids the buffered stderr items came from
RECURSIVE Origins(_)
Origins(items) ==
  IF items = <<>> THEN {} ELSE {Head(items).cmd} \cup Origins(Tail(items))

\* ------------------------------------------------------------------------
\* State
\* ------------------------------------------------------------------------
VARIABLES
  actor,        \* position of run_actor
  cur,          \* id of the command run_actor is serving, 0 when none
  stderr_lines, \* run_actor's stderr_lines, as the pipe items pushed
  diedOn,       \* why the actor terminated: "" / "spawn" / "send"
  queue,        \* the bounded command channel: ids of the queued commands
  cmds,         \* text of every command accepted by send(), by id
  sent,         \* per command: the events sent on its response channel
  rxOpen,       \* per command: the consumer still holds the receiver
  decided,      \* per command: how run_actor left it
  sendResults,  \* result of every send() call, in call order
  stdin,        \* lines written to the subprocess's stdin
  stdoutPipe,   \* unread lines of the subprocess's stdout
  stderrPipe,   \* unread lines of the subprocess's stderr
  subAlive,     \* the subprocess runs (its stdin and stdout are open)
  stderrClosed, \* the subprocess's stderr has reached end-of-file
  subRead,      \* number of stdin lines the subprocess has executed
  subCmd,       \* command whose output the subprocess is printing, -1 none
  subEmitted,   \* number of lines printed so far, sentinels aside
  emitted,      \* per command: the lines the subprocess printed for it (history)
  sentinelOut,  \* commands whose sentinel line the subprocess has printed
  parser,       \* sexpr::Parser
  pinput,       \* the whole text handed to the parser
  ppos,         \* number of characters of pinput given to take()
  drained,      \* the values returned by the drain_output() calls so far
  presult,      \* the error of a take(), or what finish() returned
  pcuts,        \* where the chunks given to take() so far ended (history)
  sexpr_value,  \* the items of the list handed to a from_sexpr()
  amount_str,   \* the text handed to Amount::parse
  decoded,      \* what the decoding function returned
  d128_excess,  \* what D128's FromStr does with digits beyond its
                \* coefficient: "error" or "round"
  tree,         \* accounts::TreeNode, the root of the account tree
  twin,         \* a TreeNode::new() given the operations since the last
                \* clear() (history)
  inserted,     \* the accounts given to add_account since the last
                \* clear() (history)
  posted,       \* the bag of the (account, amount) pairs given to
                \* add_amount_to_account since the last clear() (history)
  strayed,      \* an amount was posted to an account not inserted before
                \* (history)
  cleared,      \* clear() was called on the tree (history)
  accounts,     \* LedgerState.accounts
  events,       \* the StateUpdatedEvents LedgerState emitted, in order
  state_task,   \* the task reload_state spawned: its position and how it
                \* ended
  delivered,    \* the transactions the stream gave that task (history)
  busy,         \* RegisterView.busy
  transactions, \* RegisterView.transactions
  view_tasks,   \* the tasks run_command spawned, each with its position,
                \* how it ended and what was printed with eprintln!
  clicks,       \* how often run_command was called (history)
  stdout_lines, \* the lines the subprocess prints on stdout for the
                \* command, before the sentinel line (history)
  stdout_todo,  \* the bytes of stdout the subprocess has yet to write
  stderr_todo,  \* the bytes of stderr the subprocess has yet to write
  stdout_reader, \* the bytes written to stdout and not yet taken from
                \* Ledger.stdout_reader
  stderr_reader, \* the same for Ledger.stderr_reader
  stdout_buf,   \* buf of the first future of the race in read_either
  stderr_buf,   \* buf of the second future of the race in read_either
  read_results,  \* the ReadResults read_either returned, in order
  worker,       \* position of run_actor between the two channels
  w_cur,        \* the command run_actor is serving there, 0 when none
  cmd_chan,     \* the commands in the bounded(16) channel
  submits,      \* number of calls of LedgerHandle::send so far
  send_res,     \* per call: "" not made, "Suspended", "Ok", "ChannelClosed"
  resp,         \* per command: the events in its bounded(64) channel
  tx_dropped,   \* per command: its response_tx was dropped
  rx_dropped,   \* per command: its Receiver was dropped
  produced,     \* per command: the events run_actor sent (history)
  yielded,       \* per command: the items its LineStream yielded (history)
  sx_lines,     \* the lines the inner stream of a SexpStream has yet to
                \* yield
  sx_end,       \* how the inner stream ends: None, or the error it yields
  sx_ended,     \* the inner stream has yielded its last item
  sx_parser,    \* SexpStream.parser
  sx_pending,   \* SexpStream.pending
  sx_finished,  \* SexpStream.finished
  sx_fed,       \* the lines given to parser.take so far (history)
  sx_items,     \* the items poll_next returned, each with what it came
                \* from (history)
  pty_in,       \* the command lines written to the PTY, by calling thread
  pty_run,      \* number of command lines ledger has answered in full
  pty_printed,  \* number of chunks ledger has printed for the command
                \* line it is answering
  pty_out,      \* the chunks written by ledger and not yet read
  th_pc,        \* per execute() call: position of its thread
  th_got        \* per execute() call: the chunks its thread read and sent
                \* on its stream (history)

actorVars == <<actor, cur, stderr_lines, diedOn, queue, cmds, sent,
               rxOpen, decided, sendResults>>

subVars == <<stdin, stdoutPipe, stderrPipe, subAlive, stderrClosed, subRead,
             subCmd, subEmitted, emitted, sentinelOut>>

parserVars == <<parser, pinput, ppos, drained, presult, pcuts>>

decodeVars == <<sexpr_value, amount_str, decoded, d128_excess>>

\* the account tree and its history
treeVars == <<tree, twin, inserted, posted, strayed, cleared>>

\* LedgerState and what its task has seen
stateVars == <<accounts, events, state_task, delivered>>

\* RegisterView and its tasks
viewVars == <<busy, transactions, view_tasks, clicks>>

\* the pipes of the subprocess byte by byte, and read_either
raceVars == <<stdout_lines, stdout_todo, stderr_todo, stdout_reader,
              stderr_reader, stdout_buf, stderr_buf, read_results>>

\* the command channel, the response channels and the LineStreams
chanVars ==
  <<worker, w_cur, cmd_chan, submits, send_res, resp, tx_dropped,
    rx_dropped, produced, yielded>>

\* a SexpStream and its inner stream of lines
sexpVars ==
  <<sx_lines, sx_end, sx_ended, sx_parser, sx_pending, sx_finished,
    sx_fed, sx_items>>

\* the PTY of a ledger-cli Ledger and the threads of execute()
ptyVars ==
  <<pty_in, pty_run, pty_printed, pty_out, th_pc, th_got>>

\* what the actions of the actor, the parser and the decoders leave alone
restVars == <<treeVars, stateVars, viewVars, raceVars,
              chanVars, sexpVars, ptyVars>>

\* what the actions on the account tree leave alone
allButTree == <<actorVars, subVars, parserVars, decodeVars, stateVars,
                viewVars, raceVars,
                chanVars, sexpVars, ptyVars>>

\* what the actions of LedgerState and RegisterView leave alone
allButLoad == <<actorVars, subVars, parserVars, decodeVars, treeVars,
                raceVars,
                chanVars, sexpVars, ptyVars>>

\* what the actions of the pipes and of read_either leave alone
allButRace == <<actorVars, subVars, parserVars, decodeVars, treeVars,
                stateVars, viewVars,
                chanVars, sexpVars, ptyVars>>

\* what the actions on the channels leave alone
allButChan ==
  <<actorVars, subVars, parserVars, decodeVars, treeVars, stateVars,
    viewVars, raceVars, sexpVars, ptyVars>>

\* what the actions of the SexpStream leave alone
allButSexp ==
  <<actorVars, subVars, parserVars, decodeVars, treeVars, stateVars,
    viewVars, raceVars, chanVars, ptyVars>>

\* what the actions on the PTY leave alone
allButPty ==
  <<actorVars, subVars, parserVars, decodeVars, treeVars, stateVars,
    viewVars, raceVars, chanVars, sexpVars>>

vars == <<actorVars, subVars, parserVars, decodeVars, restVars>>

Ids == 1..Len(cmds)

\* ------------------------------------------------------------------------
\* Events of a response channel (LedgerEvent); `from` and `by` record which
\* command's output an event was built from
\* ------------------------------------------------------------------------
LineEvent(item) ==
  [type |-> "Line", text |-> item.text, res |-> "", from |-> {item.cmd},
   by |-> "stdout"]

DoneOk(from, by) ==
  [type |-> "Done", text |-> <<>>, res |-> "Ok", from |-> from, by |-> by]

DoneStderr(items, from, by) ==
  [type |-> "Done", text |-> Trim(JoinTexts(items)), res |-> "Stderr",
   from |-> from \cup Origins(items), by |-> by]

DoneIo(by) ==
  [type |-> "Done", text |-> <<>>, res |-> "Io", from |-> {}, by |-> by]

\* what the consumer can see of an event
View(e) == [type |-> e.type, text |-> e.text, res |-> e.res]

\* ------------------------------------------------------------------------
\* sexpr::Value; the fields a variant does not use are left empty
\* ------------------------------------------------------------------------
Atom(s) == [kind |-> "Atom", text |-> s, num |-> <<>>, items |-> <<>>]

I64(n) == [kind |-> "I64", text |-> <<>>, num |-> n, items |-> <<>>]

String(s) == [kind |-> "String", text |-> s, num |-> <<>>, items |-> <<>>]

List(vs) == [kind |-> "List", text |-> <<>>, num |-> <<>>, items |-> vs]

\* ------------------------------------------------------------------------
\* sexpr::Parser
\* ------------------------------------------------------------------------
Q == "\""

BS == "\\"

\* Parser::new
ParserNew ==
  [state |-> "Normal", buf |-> <<>>, escaped |-> FALSE, current_atom |-> <<>>,
   stack |-> <<>>, output |-> <<>>, in_outer_list |-> FALSE]

POk(p) == [ok |-> TRUE, err |-> "", p |-> p]

PErr(e, p) == [ok |-> FALSE, err |-> e, p |-> p]

Digits == {"0", "1", "2", "3", "4", "5", "6", "7", "8", "9"}

DigitValue(c) ==
  CASE c = "0" -> 0 [] c = "1" -> 1 [] c = "2" -> 2 [] c = "3" -> 3
    [] c = "4" -> 4 [] c = "5" -> 5 [] c = "6" -> 6 [] c = "7" -> 7
    [] c = "8" -> 8 [] c = "9" -> 9

RECURSIVE DigitsValue(_, _)
DigitsValue(ds, acc) ==
  IF ds = <<>> THEN acc ELSE DigitsValue(Tail(ds), acc * 10 + DigitValue(Head(ds)))

\* the decimal digits of i64::MAX = 2^63 - 1 and of the magnitude of
\* i64::MIN = -2^63
I64MaxDigits ==
  <<"9", "2", "2", "3", "3", "7", "2", "0", "3", "6", "8", "5", "4", "7", "7",
    "5", "8", "0", "7">>

I64MinDigits ==
  <<"9", "2", "2", "3", "3", "7", "2", "0", "3", "6", "8", "5", "4", "7", "7",
    "5", "8", "0", "8">>

RECURSIVE StripZeros(_)
StripZeros(ds) ==
  IF Len(ds) > 1 /\ Head(ds) = "0" THEN StripZeros(Tail(ds)) ELSE ds

\* a <= b for two digit strings of the same length
RECURSIVE DigitsLeq(_, _)
DigitsLeq(a, b) ==
  IF a = <<>> THEN TRUE
  ELSE IF Head(a) = Head(b) THEN DigitsLeq(Tail(a), Tail(b))
  ELSE DigitValue(Head(a)) < DigitValue(Head(b))

\* the magnitude ds (no leading zeros) does not overflow the checked
\* multiply-and-add of the conversion
FitsI64(ds, negative) ==
  LET limit == IF negative THEN I64MinDigits ELSE I64MaxDigits IN
    \/ Len(ds) < Len(limit)
    \/ Len(ds) = Len(limit) /\ DigitsLeq(ds, limit)

\* str::parse::<i64>: an optional sign followed by at least one digit and
\* nothing else, of a value inside the i64 range.  The value n is kept as
\* its decimal text (what Display prints), which is one-to-one with the
\* i64 values and has no width of its own.
ParseI64(tok) ==
  LET signed == tok # <<>> /\ Head(tok) \in {"-", "+"}
      negative == signed /\ Head(tok) = "-"
      ds == IF signed THEN Tail(tok) ELSE tok
      mag == StripZeros(ds)
  IN IF /\ ds # <<>>
        /\ \A i \in 1..Len(ds) : ds[i] \in Digits
        /\ FitsI64(mag, negative)
     THEN [ok |-> TRUE,
           n |-> IF negative /\ mag # <<"0">> THEN <<"-">> \o mag ELSE mag]
     ELSE [ok |-> FALSE, n |-> <<>>]

\* a plausible slip: a child of the outer list is kept in its parent, as
\* the values nested deeper are
push_valueIntoParent(p, value) ==
  IF p.stack # <<>>
  THEN [p EXCEPT !.stack[Len(p.stack)] = Append(@, value)]
  ELSE [p EXCEPT !.output = Append(@, value)]

\* Parser::push_value
push_value(p, value) ==
  IF Len(p.stack) = 1 /\ p.in_outer_list
  THEN [p EXCEPT !.output = Append(@, value)]
  ELSE IF p.stack # <<>>
       THEN [p EXCEPT !.stack[Len(p.stack)] = Append(@, value)]
       ELSE [p EXCEPT !.output = Append(@, value)]

\* a plausible slip: a token that is not an integer after all is kept as
\* an atom
flush_atomAsText(p) ==
  IF p.current_atom = <<>>
  THEN POk(p)
  ELSE LET r == ParseI64(p.current_atom) IN
         IF Head(p.current_atom) \in Digits \cup {"-"} /\ r.ok
         THEN POk([push_value(p, I64(r.n)) EXCEPT !.current_atom = <<>>])
         ELSE POk(push_value([p EXCEPT !.current_atom = <<>>],
                             Atom(p.current_atom)))

\* Parser::flush_atom
flush_atom(p) ==
  IF p.current_atom = <<>>
  THEN POk(p)
  ELSE IF Head(p.current_atom) \in Digits \cup {"-"}
       THEN LET r == ParseI64(p.current_atom) IN
              IF r.ok
              THEN POk([push_value(p, I64(r.n)) EXCEPT !.current_atom = <<>>])
              ELSE PErr("InvalidInteger", p)
       ELSE POk(push_value([p EXCEPT !.current_atom = <<>>],
                           Atom(p.current_atom)))

\* a plausible slip: a ')' with no list open closes an empty list
popOrDefault(p) ==
  IF p.stack = <<>>
  THEN [ok |-> TRUE, err |-> "", p |-> p, list |-> <<>>]
  ELSE [ok |-> TRUE, err |-> "", list |-> p.stack[Len(p.stack)],
        p |-> [p EXCEPT !.stack = SubSeq(@, 1, Len(@) - 1)]]

\* self.stack.pop().ok_or(Error::UnmatchedCloseParen)
pop(p) ==
  IF p.stack = <<>>
  THEN [ok |-> FALSE, err |-> "UnmatchedCloseParen", p |-> p, list |-> <<>>]
  ELSE [ok |-> TRUE, err |-> "", list |-> p.stack[Len(p.stack)],
        p |-> [p EXCEPT !.stack = SubSeq(@, 1, Len(@) - 1)]]

\* a plausible slip: the check for a second top-level form is left out
neverSecondForm(p) == FALSE

\* the test that rejects multiple top-level forms: no list is open and the
\* outer list has been opened before
IsSecondForm(p) == p.stack = <<>> /\ p.in_outer_list

\* the body of take()'s loop for one character
TakeChar(p, ch) ==
  IF p.state = "InString"
  THEN IF p.escaped
       THEN POk([p EXCEPT !.buf = Append(@, CASE ch = "n" -> NL
                                              [] ch = "t" -> "\t"
                                              [] OTHER -> ch),
                          !.escaped = FALSE])
       ELSE CASE ch = BS -> POk([p EXCEPT !.escaped = TRUE])
              [] ch = Q -> POk([push_value([p EXCEPT !.buf = <<>>], String(p.buf))
                                  EXCEPT !.state = "Normal"])
              [] OTHER -> POk([p EXCEPT !.buf = Append(@, ch)])
  ELSE CASE ch = Q ->
              LET f == flush_atom(p) IN
                IF ~f.ok THEN f
                ELSE POk([f.p EXCEPT !.state = "InString", !.buf = <<>>,
                                     !.escaped = FALSE])
         [] ch = "(" ->
              LET f == flush_atom(p) IN
                IF ~f.ok THEN f
                ELSE IF IsSecondForm(f.p)
                     THEN PErr("MultipleTopLevelForms", f.p)
                     ELSE POk([f.p EXCEPT
                                 !.in_outer_list = IF f.p.stack = <<>> THEN TRUE ELSE @,
                                 !.stack = Append(@, <<>>)])
         [] ch = ")" ->
              LET f == flush_atom(p) IN
                IF ~f.ok THEN f
                ELSE LET r == pop(f.p) IN
                       IF ~r.ok THEN PErr(r.err, r.p)
                       ELSE IF r.p.stack = <<>> /\ r.p.in_outer_list
                            THEN POk(r.p)
                            ELSE POk(push_value(r.p, List(r.list)))
         [] IsWhitespace(ch) -> flush_atom(p)
         [] OTHER -> POk([p EXCEPT !.current_atom = Append(@, ch)])

\* the loop of take(): the characters of the chunk in turn, up to the
\* first error
RECURSIVE TakeChars(_, _)
TakeChars(p, chunk) ==
  IF chunk = <<>> THEN POk(p)
  ELSE LET r == TakeChar(p, Head(chunk)) IN
         IF r.ok THEN TakeChars(r.p, Tail(chunk)) ELSE r

\* a plausible slip: the end of a chunk is taken for the end of a token
takeFlushingAtChunkEnd(p, chunk) ==
  LET r == TakeChars(p, chunk) IN IF r.ok THEN flush_atom(r.p) ELSE r

\* Parser::take
take(p, chunk) == TakeChars(p, chunk)

\* Parser::drain_output: the values returned
drain_output(p) == p.output

\* results of finish(), and of a take() that failed
NoResult == [kind |-> "none", err |-> "", n |-> 0, values |-> <<>>, at |-> 0]

\* at: the position in the text of the character take() returned Err at
\* (0 where the caller does not know it)
TakeFailedAt(e, at) ==
  [kind |-> "TakeErr", err |-> e, n |-> 0, values |-> <<>>, at |-> at]

TakeFailed(e) == TakeFailedAt(e, 0)

FinishFailed(e, n) ==
  [kind |-> "FinishErr", err |-> e, n |-> n, values |-> <<>>, at |-> 0]

Finished(vs) == [kind |-> "Ok", err |-> "", n |-> 0, values |-> vs, at |-> 0]

\* a plausible slip: the open lists are looked at before the open string
finishStackFirst(p) ==
  LET f == flush_atom(p) IN
    IF ~f.ok THEN FinishFailed(f.err, 0)
    ELSE IF f.p.stack # <<>> THEN FinishFailed("UnclosedParens", Len(f.p.stack))
    ELSE IF f.p.state = "InString" THEN FinishFailed("UnterminatedString", 0)
    ELSE Finished(f.p.output)

\* Parser::finish
finish(p) ==
  LET f == flush_atom(p) IN
    IF ~f.ok THEN FinishFailed(f.err, 0)
    ELSE IF f.p.state = "InString" THEN FinishFailed("UnterminatedString", 0)
    ELSE IF f.p.stack # <<>> THEN FinishFailed("UnclosedParens", Len(f.p.stack))
    ELSE Finished(f.p.output)

\* parse_sexpr: one take() of the whole input, then finish()
parse_sexpr(input) ==
  LET r == take(ParserNew, input) IN
    IF r.ok THEN finish(r.p) ELSE TakeFailed(r.err)

ParserIdle ==
  /\ parser = ParserNew
  /\ pinput = <<>>
  /\ ppos = 0
  /\ drained = <<>>
  /\ presult = NoResult
  /\ pcuts = {}

\* ------------------------------------------------------------------------
\* Text functions of the standard library, on sequences of characters
\* ------------------------------------------------------------------------
\* str::find(char): the place of the first occurrence, 0 for None
Find(text, ch) ==
  IF \E i \in 1..Len(text) : text[i] = ch
  THEN CHOOSE i \in 1..Len(text) :
         text[i] = ch /\ \A j \in 1..(i - 1) : text[j] # ch
  ELSE 0

\* str::split(ch): the parts between the occurrences of ch, empty ones too
RECURSIVE Split(_, _)
Split(text, ch) ==
  LET at == Find(text, ch) IN
    IF at = 0 THEN <<text>>
    ELSE <<SubSeq(text, 1, at - 1)>>
           \o Split(SubSeq(text, at + 1, Len(text)), ch)

\* str::split_whitespace: the maximal runs of characters that are not
\* whitespace
RECURSIVE SplitWhitespace(_)
SplitWhitespace(text) ==
  LET t == TrimStart(text) IN
    IF t = <<>> THEN <<>>
    ELSE LET n == IF \E i \in 1..Len(t) : IsWhitespace(t[i])
                  THEN (CHOOSE i \in 1..Len(t) :
                          IsWhitespace(t[i])
                          /\ \A j \in 1..(i - 1) : ~IsWhitespace(t[j])) - 1
                  ELSE Len(t)
         IN <<SubSeq(t, 1, n)>> \o SplitWhitespace(SubSeq(t, n + 1, Len(t)))

\* [&str]::join(sep)
RECURSIVE Join(_, _)
Join(parts, sep) ==
  IF parts = <<>> THEN <<>>
  ELSE IF Len(parts) = 1 THEN parts[1]
  ELSE parts[1] \o sep \o Join(Tail(parts), sep)

\* str::trim_matches(ch)
RECURSIVE TrimMatches(_, _)
TrimMatches(text, ch) ==
  IF text # <<>> /\ Head(text) = ch THEN TrimMatches(Tail(text), ch)
  ELSE IF text # <<>> /\ text[Len(text)] = ch
       THEN TrimMatches(SubSeq(text, 1, Len(text) - 1), ch)
       ELSE text

\* str::replace(ch, ""): the text without its occurrences of ch
RECURSIVE Remove(_, _)
Remove(text, ch) ==
  IF text = <<>> THEN <<>>
  ELSE (IF Head(text) = ch THEN <<>> ELSE <<Head(text)>>) \o Remove(Tail(text), ch)

AllDigits(text) == text # <<>> /\ \A i \in 1..Len(text) : text[i] \in Digits

\* Option
None == [some |-> FALSE]

Some(x) == [some |-> TRUE, v |-> x]

\* ------------------------------------------------------------------------
\* Parsing of decimals and dates, for the texts of the model: a decimal is
\* an optional sign, digits, and optionally a point and digits; a date is
\* a four-digit year, a two-digit month and a two-digit day of that month
\* with one separator character between them.
\* ------------------------------------------------------------------------
\* fastnum::D128: a sign, an unsigned 128-bit coefficient, kept as its
\* decimal digits, and a scale, the number of digits behind the point;
\* inexact tells that digits of the text are not in the coefficient
D128(neg, digits, scale, inexact) ==
  [neg |-> neg, digits |-> digits, scale |-> scale, inexact |-> inexact]

\* the decimal digits of u128::MAX = 2^128 - 1
U128MaxDigits ==
  <<"3", "4", "0", "2", "8", "2", "3", "6", "6", "9", "2", "0", "9", "3", "8",
    "4", "6", "3", "4", "6", "3", "3", "7", "4", "6", "0", "7", "4", "3", "1",
    "7", "6", "8", "2", "1", "1", "4", "5", "5">>

\* the digits ds (no leading zeros) are a value of the coefficient
FitsU128(ds) ==
  \/ Len(ds) < Len(U128MaxDigits)
  \/ Len(ds) = Len(U128MaxDigits) /\ DigitsLeq(ds, U128MaxDigits)

\* the digits D128 keeps of a text that has more than its coefficient
\* holds: the leading ones, one less than the longest coefficient has
D128Precision == Len(U128MaxDigits) - 1

\* the result of parsing the digits whole.frac: exact when they fit the
\* coefficient; when they do not, the error or the rounded value, as
\* d128_excess has it
D128Of(neg, whole, frac) ==
  LET all == StripZeros(whole \o frac)
      lost == Len(all) - D128Precision
  IN IF FitsU128(all)
     THEN [ok |-> TRUE, v |-> D128(neg, all, Len(frac), FALSE)]
     ELSE IF d128_excess = "round" /\ lost <= Len(frac)
     THEN [ok |-> TRUE,
           v |-> D128(neg, SubSeq(all, 1, D128Precision), Len(frac) - lost,
                      TRUE)]
     ELSE [ok |-> FALSE, v |-> <<>>]

\* str::parse::<D128>
ParseD128(text) ==
  LET signed == text # <<>> /\ Head(text) \in {"-", "+"}
      body == IF signed THEN Tail(text) ELSE text
      dot == Find(body, ".")
      whole == IF dot = 0 THEN body ELSE SubSeq(body, 1, dot - 1)
      frac == IF dot = 0 THEN <<>> ELSE SubSeq(body, dot + 1, Len(body))
  IN IF AllDigits(whole) /\ (dot = 0 \/ AllDigits(frac))
     THEN D128Of(signed /\ Head(text) = "-", whole, frac)
     ELSE [ok |-> FALSE, v |-> <<>>]

DaysIn(y, m) ==
  IF m = 2
  THEN (IF y % 4 = 0 /\ (y % 100 # 0 \/ y % 400 = 0) THEN 29 ELSE 28)
  ELSE IF m \in {4, 6, 9, 11} THEN 30 ELSE 31

\* NaiveDate::parse_from_str(text, "%Y<sep>%m<sep>%d")
ParseDate(text, sep) ==
  IF /\ Len(text) = 10
     /\ text[5] = sep /\ text[8] = sep
     /\ AllDigits(SubSeq(text, 1, 4))
     /\ AllDigits(SubSeq(text, 6, 7))
     /\ AllDigits(SubSeq(text, 9, 10))
  THEN LET y == DigitsValue(SubSeq(text, 1, 4), 0)
           m == DigitsValue(SubSeq(text, 6, 7), 0)
           d == DigitsValue(SubSeq(text, 9, 10), 0)
       IN IF m \in 1..12 /\ d \in 1..DaysIn(y, m)
          THEN [ok |-> TRUE, v |-> [year |-> y, month |-> m, day |-> d]]
          ELSE [ok |-> FALSE, v |-> <<>>]
  ELSE [ok |-> FALSE, v |-> <<>>]

\* ------------------------------------------------------------------------
\* transactions::CurrencyAmount and transactions::Amount
\* ------------------------------------------------------------------------
AmountOk(x) == [kind |-> "Ok", err |-> "", v |-> x]

AmountErr(e) == [kind |-> "Err", err |-> e, v |-> <<>>]

\* the process aborts: a slice whose start lies behind its end
Panicked == [kind |-> "Panic", err |-> "", v |-> <<>>]

\* CurrencyAmount::parse
CurrencyAmountParse(text) ==
  LET parts == SplitWhitespace(Trim(text)) IN
    IF parts = <<>> THEN AmountErr("InvalidFormat")
    ELSE LET d == ParseD128(Remove(parts[1], ",")) IN
           IF ~d.ok THEN AmountErr("InvalidDecimal")
           ELSE IF Tail(parts) = <<>>
                THEN AmountOk([value |-> d.v, commodity |-> <<>>])
                ELSE AmountOk([value |-> d.v,
                               commodity |->
                                 TrimMatches(Join(Tail(parts), <<" ">>), Q)])

\* the text between the first `open` and the first `close`: what
\* `&amount_str[start + 1..end].trim()` gives.  A clause that is absent is
\* Ok(None); a missing `close` is InvalidFormat; an end before the start
\* makes the slice panic.
Clause(text, open, close) ==
  LET start == Find(text, open)
      end == Find(text, close)
  IN IF start = 0 THEN AmountOk(None)
     ELSE IF end = 0 THEN AmountErr("InvalidFormat")
     ELSE IF end < start THEN Panicked
     ELSE AmountOk(Some(Trim(SubSeq(text, start + 1, end - 1))))

\* the price clause
PriceOf(text) ==
  LET c == Clause(text, "{", "}") IN
    IF c.kind # "Ok" \/ ~c.v.some THEN c
    ELSE LET price == CurrencyAmountParse(c.v.v) IN
           IF price.kind = "Ok" THEN AmountOk(Some(price.v))
           ELSE AmountErr("InvalidFormat")

\* the date clause
DateOf(text) ==
  LET c == Clause(text, "[", "]") IN
    IF c.kind # "Ok" \/ ~c.v.some THEN c
    ELSE LET date == ParseDate(c.v.v, "/") IN
           IF date.ok THEN AmountOk(Some(date.v))
           ELSE AmountErr("InvalidFormat")

\* a plausible slip: the value is cut at the price clause only
ValueTextToBrace(text) ==
  LET price_start == Find(text, "{") IN
    IF price_start # 0 THEN SubSeq(text, 1, price_start - 1) ELSE text

\* the part of the text read as the value: up to the price clause, else
\* up to the date clause, else all of it
ValueText(text) ==
  LET price_start == Find(text, "{")
      date_start == Find(text, "[")
  IN IF price_start # 0 THEN SubSeq(text, 1, price_start - 1)
     ELSE IF date_start # 0 THEN SubSeq(text, 1, date_start - 1)
     ELSE text

\* the end of Amount::parse, the three parts having been read in this
\* order: the first that failed is the result
AmountOf(price, date, value) ==
  IF price.kind # "Ok" THEN price
  ELSE IF date.kind # "Ok" THEN date
  ELSE IF value.kind # "Ok" THEN value
  ELSE AmountOk([value |-> value.v, price |-> price.v, date |-> date.v])

\* Amount::parse
AmountParse(text) ==
  AmountOf(PriceOf(text), DateOf(text), CurrencyAmountParse(ValueText(text)))

\* ------------------------------------------------------------------------
\* accounts::Account, transactions::Posting and transactions::Transaction
\* ------------------------------------------------------------------------
RECURSIVE NonEmpty(_)
NonEmpty(parts) ==
  IF parts = <<>> THEN <<>>
  ELSE (IF Head(parts) = <<>> THEN <<>> ELSE <<Head(parts)>>) \o NonEmpty(Tail(parts))

\* a plausible slip: the empty segments are kept
AccountParseKeepEmpty(name) == Split(name, ":")

\* Account::parse: the segments
AccountParse(name) == NonEmpty(Split(name, ":"))

\* results of the from_sexpr functions.  An error carries its position and
\* element (UnexpectedType), its lengths (UnexpectedLength) or the error
\* it wraps (InvalidAmount, PostingError).
DecodeOk(x) == [kind |-> "Ok", v |-> x]

UnexpectedLength(want, got) ==
  [kind |-> "Err", err |-> "UnexpectedLength", want |-> want, got |-> got]

UnexpectedType(pos, val) ==
  [kind |-> "Err", err |-> "UnexpectedType", pos |-> pos, val |-> val]

InvalidAmount(e) == [kind |-> "Err", err |-> "InvalidAmount", inner |-> e]

PostingError(i, e) ==
  [kind |-> "Err", err |-> "PostingError", pos |-> i, inner |-> e]

ParseDateError == [kind |-> "Err", err |-> "ParseDateError"]

DecodePanicked == [kind |-> "Panic"]

\* the end of Posting::from_sexpr, Amount::parse having returned
PostingOf(items, amount) ==
  IF amount.kind = "Panic" THEN DecodePanicked
  ELSE IF amount.kind = "Err" THEN InvalidAmount(amount.err)
  ELSE IF Len(items) = 5 /\ items[5].kind # "String"
       THEN UnexpectedType(4, items[5])
       ELSE DecodeOk([account |-> AccountParse(items[2].text),
                      amount |-> amount.v,
                      note |-> IF Len(items) = 5 THEN Some(items[5].text)
                               ELSE None])

\* Posting::from_sexpr; items[i + 1] is the source's value[i]
PostingFromSexpr(items) ==
  IF Len(items) < 4 THEN UnexpectedLength(4, Len(items))
  ELSE IF items[2].kind # "String" THEN UnexpectedType(1, items[2])
  ELSE IF items[3].kind # "String" THEN UnexpectedType(2, items[3])
  ELSE PostingOf(items, AmountParse(items[3].text))

\* the closure mapped over value[5..], Posting::from_sexpr having returned
\* r for a list; i counts from 0
PostingAt(i, posting_value, r) ==
  IF posting_value.kind # "List" THEN UnexpectedType(i + 5, posting_value)
  ELSE IF r.kind = "Err" THEN PostingError(i, r) ELSE r

\* collect::<Result<Vec<_>, _>>() over the postings from the i-th on, acc
\* being those collected already: the first failure ends it
RECURSIVE CollectPostings(_, _, _)
Collected(r, rest, i, acc) ==
  IF r.kind # "Ok" THEN r
  ELSE CollectPostings(Tail(rest), i + 1, Append(acc, r.v))

CollectPostings(rest, i, acc) ==
  IF rest = <<>> THEN DecodeOk(acc)
  ELSE Collected(PostingAt(i, Head(rest), PostingFromSexpr(Head(rest).items)),
                 rest, i, acc)

\* the end of Transaction::from_sexpr: the postings, then the date
TransactionOf(items, postings, time) ==
  IF postings.kind # "Ok" THEN postings
  ELSE IF ~time.ok THEN ParseDateError
  ELSE DecodeOk([file |-> items[1].text, line |-> items[2].num,
                 time |-> time.v, description |-> items[5].text,
                 postings |-> postings.v])

\* Transaction::from_sexpr; items[i + 1] is the source's value[i]
TransactionFromSexpr(items) ==
  IF Len(items) < 5 THEN UnexpectedLength(5, Len(items))
  ELSE IF items[1].kind # "String" THEN UnexpectedType(1, items[2])
  ELSE IF items[2].kind # "I64" THEN UnexpectedType(1, items[2])
  ELSE IF items[3].kind # "String" THEN UnexpectedType(2, items[3])
  ELSE IF items[5].kind # "String" THEN UnexpectedType(4, items[5])
  ELSE TransactionOf(items,
                     CollectPostings(SubSeq(items, 6, Len(items)), 0, <<>>),
                     ParseDate(items[3].text, "-"))

\* no decoding function has been called
NotDecoded == [op |-> "none"]

\* what the D128 of the build may do with a text of more digits than its
\* coefficient holds
D128Excess == {"error", "round"}

DecodeIdle ==
  /\ sexpr_value = <<>>
  /\ amount_str = <<>>
  /\ decoded = NotDecoded
  /\ d128_excess = "error"

\* ------------------------------------------------------------------------
\* accounts::Balance and accounts::TreeNode.  An account is the sequence
\* of its segments; an amount is a value and a commodity; a balance is
\* the function from the commodities it has an entry for to their sums.
\* ------------------------------------------------------------------------
\* Balance::new
BalanceNew == [c \in {} |-> 0]

\* the entry of a balance, nothing standing for no entry
Entry(balance, c) ==
  IF c \in DOMAIN balance THEN Some(balance[c]) ELSE None

\* a plausible slip: the value is added to every entry there is
add_amountToAll(balance, amount) ==
  [c \in DOMAIN balance \cup {amount.commodity} |->
     (IF c \in DOMAIN balance THEN balance[c] ELSE 0) + amount.value]

\* Balance::add_amount: the entry of the commodity, made with zero if
\* there is none, grows by the value
add_amount(balance, amount) ==
  [c \in DOMAIN balance \cup {amount.commodity} |->
     (IF c \in DOMAIN balance THEN balance[c] ELSE 0)
       + (IF c = amount.commodity THEN amount.value ELSE 0)]

\* TreeNode::new
TreeNodeNew == [account |-> <<>>, balance |-> BalanceNew, children |-> <<>>]

\* the node that add_account_recursive pushes
TreeNodeOf(account) ==
  [account |-> account, balance |-> BalanceNew, children |-> <<>>]

\* a plausible slip: the children are kept
clearKeepChildren(node) ==
  [node EXCEPT !.account = <<>>, !.balance = BalanceNew]

\* TreeNode::clear
clear(node) ==
  [node EXCEPT !.children = <<>>, !.account = <<>>, !.balance = BalanceNew]

\* children.iter().position(|child| child.account.eq(&current)), and the
\* child that iter_mut().find() gives: the index of the first child of
\* that account, 0 for None
position(children, current) ==
  IF \E i \in 1..Len(children) : children[i].account = current
  THEN CHOOSE i \in 1..Len(children) :
         /\ children[i].account = current
         /\ \A j \in 1..(i - 1) : children[j].account # current
  ELSE 0

\* a plausible slip: the child is given the whole account
CurrentWhole(account, depth) == account

\* account.segments[..=depth]
Current(account, depth) == SubSeq(account, 1, depth + 1)

\* a plausible slip: a child is pushed whether or not there is one
WithChildPushed(children, current) == Append(children, TreeNodeOf(current))

\* the children after the child of the current account was found or
\* pushed
WithChild(children, current) ==
  IF position(children, current) = 0
  THEN Append(children, TreeNodeOf(current))
  ELSE children

\* TreeNode::add_account_recursive
RECURSIVE add_account_recursive(_, _, _)
AddedBelow(node, children, idx, account, depth) ==
  [node EXCEPT !.children =
     [children EXCEPT ![idx] = add_account_recursive(@, account, depth + 1)]]

add_account_recursive(node, account, depth) ==
  IF depth >= Len(account) THEN node
  ELSE AddedBelow(node, WithChild(node.children, Current(account, depth)),
                  position(WithChild(node.children, Current(account, depth)),
                           Current(account, depth)),
                  account, depth)

\* TreeNode::add_account
add_account(node, account) == add_account_recursive(node, account, 0)

\* what add_amount_recursive returns and what it leaves of the node
NotFound(node) == [found |-> FALSE, node |-> node]

\* the node with the child at idx given the amount, below being that
\* child as the recursion left it
FoundIn(node, idx, below, amount) ==
  [found |-> TRUE,
   node |-> [node EXCEPT !.children[idx] =
               [below EXCEPT !.balance = add_amount(@, amount)]]]

\* TreeNode::add_amount_recursive
RECURSIVE add_amount_recursive(_, _, _, _)
\* a plausible slip: the amount reaches the account's own node only
AmountBelowOnly(node, idx, r, amount) ==
  [found |-> r.found, node |-> [node EXCEPT !.children[idx] = r.node]]

\* the node after the recursion into the child at idx returned r
AmountBelow(node, idx, r, amount) ==
  IF r.found THEN FoundIn(node, idx, r.node, amount) ELSE NotFound(node)

AmountAt(node, idx, account, amount, depth) ==
  IF idx = 0 THEN NotFound(node)
  ELSE IF node.children[idx].account = account
  THEN FoundIn(node, idx, node.children[idx], amount)
  ELSE AmountBelow(node, idx,
                   add_amount_recursive(node.children[idx], account, amount,
                                        depth + 1),
                   amount)

add_amount_recursive(node, account, amount, depth) ==
  IF depth >= Len(account) THEN NotFound(node)
  ELSE AmountAt(node, position(node.children, Current(account, depth)),
                account, amount, depth)

\* TreeNode::add_amount_to_account
add_amount_to_account(node, account, amount) ==
  add_amount_recursive(node, account, amount, 0).node

\* the accounts of the calls: assets:bank:checking and assets:cash of
\* the repository's tests, their parents, and Account::empty()
Accounts ==
  {<<>>, <<"assets">>, <<"assets", "bank">>,
   <<"assets", "bank", "checking">>, <<"assets", "cash">>}

\* the amounts of the calls
Amounts ==
  {[value |-> 1, commodity |-> "USD"], [value |-> 2, commodity |-> "EUR"]}

\* the most calls of add_amount_to_account between two clear()
MaxAmounts == 2

\* the non-empty prefixes of an account, the account included
PrefixesOf(account) == { SubSeq(account, 1, k) : k \in 1..Len(account) }

\* all nodes below a node, one item per node
RECURSIVE Below(_)
RECURSIVE BelowAll(_)
BelowAll(children) ==
  IF children = <<>> THEN <<>>
  ELSE <<Head(children)>> \o Below(Head(children))
         \o BelowAll(Tail(children))

Below(node) == BelowAll(node.children)

\* the accounts that have a node in the tree
Nodes(node) == { Below(node)[i].account : i \in 1..Len(Below(node)) }

\* TreeNode::add_account on the tree in use
AddAccount ==
  \E account \in Accounts :
    /\ tree' = add_account(tree, account)
    /\ twin' = add_account(twin, account)
    /\ inserted' = inserted \cup {account}
    /\ UNCHANGED <<posted, strayed, cleared>>
    /\ UNCHANGED allButTree

\* TreeNode::add_amount_to_account on the tree in use
AddAmount ==
  \E account \in Accounts \ {<<>>}, amount \in Amounts :
    /\ BagCardinality(posted) < MaxAmounts
    /\ tree' = add_amount_to_account(tree, account, amount)
    /\ twin' = add_amount_to_account(twin, account, amount)
    /\ posted' = posted (+) SetToBag({<<account, amount>>})
    /\ strayed' = (strayed \/ account \notin Nodes(tree))
    /\ UNCHANGED <<inserted, cleared>>
    /\ UNCHANGED allButTree

\* TreeNode::clear on the tree in use
Clear ==
  /\ tree' = clear(tree)
  /\ twin' = TreeNodeNew
  /\ inserted' = {}
  /\ posted' = EmptyBag
  /\ strayed' = FALSE
  /\ cleared' = TRUE
  /\ UNCHANGED allButTree

\* no tree in use
TreeIdle ==
  /\ tree = TreeNodeNew
  /\ twin = TreeNodeNew
  /\ inserted = {}
  /\ posted = EmptyBag
  /\ strayed = FALSE
  /\ cleared = FALSE

\* ------------------------------------------------------------------------
\* ui::state::LedgerState and main.rs's RegisterView: the two consumers of
\* ledger.stream(..).sexpr().transactions().  The stream is the
\* environment: it cannot be opened, or it gives transactions and then
\* ends or gives one error.  A transaction is the sequence of the accounts
\* of its postings.
\* ------------------------------------------------------------------------
\* the transactions a stream gives
Transactions == {<<"a">>, <<"a", "b">>, <<"b", "c", "b">>}

\* the most transactions one stream gives
MaxLoad == 2

\* the most calls of run_command
MaxClicks == 2

\* StateUpdatedEvent
Reset == [type |-> "Reset"]

NewTransaction(transaction) ==
  [type |-> "NewTransaction", transaction |-> transaction]

NewAccount(account) == [type |-> "NewAccount", account |-> account]

Error(message) == [type |-> "Error", message |-> message]

\* the events of the loop over the postings: NewAccount for each account
\* that accounts.insert() had not yet
RECURSIVE NewAccounts(_, _)
NewAccounts(postings, seen) ==
  IF postings = <<>> THEN <<>>
  ELSE IF Head(postings) \in seen
  THEN NewAccounts(Tail(postings), seen)
  ELSE <<NewAccount(Head(postings))>>
         \o NewAccounts(Tail(postings), seen \cup {Head(postings)})

\* the accounts of a transaction's postings
PostingAccounts(transaction) ==
  { transaction[i] : i \in 1..Len(transaction) }

\* a plausible slip: the transaction is announced before its accounts
UpdateEmitsAfter(transaction, seen) ==
  <<NewTransaction(transaction)>> \o NewAccounts(transaction, seen)

\* what this.update() emits for a transaction
UpdateEmits(transaction, seen) ==
  NewAccounts(transaction, seen) \o <<NewTransaction(transaction)>>

\* a task: where it is, how it ended, what it printed to stderr
Task(at, outcome, printed) ==
  [at |-> at, outcome |-> outcome, printed |-> printed]

\* LedgerState::new: the only call of reload_state, which clears the
\* accounts, emits Reset and spawns the task
reload_state ==
  /\ state_task = Task("none", "none", 0)
  /\ accounts' = {}
  /\ events' = Append(events, Reset)
  /\ state_task' = Task("starting", "none", 0)
  /\ UNCHANGED <<delivered, viewVars>>
  /\ UNCHANGED allButLoad

\* ledger.stream(&command) is Err: the command could not be sent
StateUnsent ==
  /\ state_task.at = "starting"
  /\ events' = Append(events, Error("Failed to start ledger command"))
  /\ state_task' = Task("ended", "unsent", 0)
  /\ UNCHANGED <<accounts, delivered, viewVars>>
  /\ UNCHANGED allButLoad

\* ledger.stream(&command) is Ok
StateStreams ==
  /\ state_task.at = "starting"
  /\ state_task' = Task("streaming", "none", 0)
  /\ UNCHANGED <<accounts, events, delivered, viewVars>>
  /\ UNCHANGED allButLoad

\* stream.next() is Some(Ok(transaction))
StateTransaction ==
  \E transaction \in Transactions :
    /\ state_task.at = "streaming"
    /\ Len(delivered) < MaxLoad
    /\ accounts' = accounts \cup PostingAccounts(transaction)
    /\ events' = events \o UpdateEmits(transaction, accounts)
    /\ delivered' = Append(delivered, transaction)
    /\ UNCHANGED <<state_task, viewVars>>
    /\ UNCHANGED allButLoad

\* stream.next() is None
StateEnd ==
  /\ state_task.at = "streaming"
  /\ state_task' = Task("ended", "end", 0)
  /\ UNCHANGED <<accounts, events, delivered, viewVars>>
  /\ UNCHANGED allButLoad

\* stream.next() is Some(Err(e))
StateError ==
  /\ state_task.at = "streaming"
  /\ events' = Append(events, Error("Error parsing transaction"))
  /\ state_task' = Task("ended", "error", 0)
  /\ UNCHANGED <<accounts, delivered, viewVars>>
  /\ UNCHANGED allButLoad

\* a plausible slip: run_command does not look at busy
BusyIgnored == FALSE

\* the guard of run_command
Busy == busy

\* RegisterView::run_command, from RegisterView::new and from the button
run_command ==
  /\ clicks < MaxClicks
  /\ clicks' = clicks + 1
  /\ IF Busy
     THEN UNCHANGED <<busy, transactions, view_tasks>>
     ELSE /\ busy' = TRUE
          /\ transactions' = <<>>
          /\ view_tasks' = Append(view_tasks, Task("starting", "none", 0))
  /\ UNCHANGED stateVars
  /\ UNCHANGED allButLoad

\* ledger.stream(&command) is Err: the command could not be sent
ViewUnsent ==
  \E i \in 1..Len(view_tasks) :
    /\ view_tasks[i].at = "starting"
    /\ busy' = FALSE
    /\ view_tasks' = [view_tasks EXCEPT ![i] = Task("ended", "unsent", 0)]
    /\ UNCHANGED <<transactions, clicks, stateVars>>
    /\ UNCHANGED allButLoad

\* ledger.stream(&command) is Ok
ViewStreams ==
  \E i \in 1..Len(view_tasks) :
    /\ view_tasks[i].at = "starting"
    /\ view_tasks' = [view_tasks EXCEPT ![i] = Task("streaming", "none", 0)]
    /\ UNCHANGED <<busy, transactions, clicks, stateVars>>
    /\ UNCHANGED allButLoad

\* stream.next() is Some(Ok(transaction))
ViewTransaction ==
  \E i \in 1..Len(view_tasks), transaction \in Transactions :
    /\ view_tasks[i].at = "streaming"
    /\ Len(transactions) < MaxLoad
    /\ transactions' = Append(transactions, transaction)
    /\ UNCHANGED <<busy, view_tasks, clicks, stateVars>>
    /\ UNCHANGED allButLoad

\* stream.next() is None
ViewEnd ==
  \E i \in 1..Len(view_tasks) :
    /\ view_tasks[i].at = "streaming"
    /\ busy' = FALSE
    /\ view_tasks' = [view_tasks EXCEPT ![i] = Task("ended", "end", 0)]
    /\ UNCHANGED <<transactions, clicks, stateVars>>
    /\ UNCHANGED allButLoad

\* stream.next() is Some(Err(e)): eprintln!("Error: {}", e)
ViewError ==
  \E i \in 1..Len(view_tasks) :
    /\ view_tasks[i].at = "streaming"
    /\ busy' = FALSE
    /\ view_tasks' = [view_tasks EXCEPT ![i] = Task("ended", "error", 1)]
    /\ UNCHANGED <<transactions, clicks, stateVars>>
    /\ UNCHANGED allButLoad

\* no LedgerState and no RegisterView yet
LoadIdle ==
  /\ accounts = {}
  /\ events = <<>>
  /\ state_task = Task("none", "none", 0)
  /\ delivered = <<>>
  /\ busy = FALSE
  /\ transactions = <<>>
  /\ view_tasks = <<>>
  /\ clicks = 0

\* ------------------------------------------------------------------------
\* Ledger::read_either during one command, byte by byte.  The subprocess
\* writes its stdout and stderr a byte at a time; a poll of one of the two
\* futures of the race runs its read_until, which takes what is readable
\* up to and including the first newline into the future's own buf and is
\* ready only with a newline.  When one future is ready read_either
\* returns and both futures, with their bufs, are dropped; the next call
\* starts with empty bufs.
\* ------------------------------------------------------------------------
\* MARKER in two parts, so that it can become readable in fragments
MarkerBytes == <<"__END_OF_", "RESPONSE__">>

\* the lines the subprocess prints, newline aside
LineTexts == {<<"a", "b">>, <<"c">>}

\* the most lines on stdout before the sentinel line
MaxStdout == 2

\* the most lines on stderr
MaxStderr == 1

\* the sequences of at most n lines
RECURSIVE LinesUpTo(_)
LinesUpTo(n) ==
  IF n = 0 THEN {<<>>}
  ELSE LinesUpTo(n - 1)
         \cup { Append(ls, l) : ls \in { x \in LinesUpTo(n - 1) : Len(x) = n - 1 },
                                l \in LineTexts }

\* the bytes of a sequence of lines, each with its newline
RECURSIVE BytesOf(_)
BytesOf(ls) ==
  IF ls = <<>> THEN <<>> ELSE Head(ls) \o <<NL>> \o BytesOf(Tail(ls))

\* the place of the first newline in bytes, 0 when there is none
FirstNewline(bytes) ==
  IF \E i \in 1..Len(bytes) : bytes[i] = NL
  THEN CHOOSE i \in 1..Len(bytes) :
         bytes[i] = NL /\ \A j \in 1..(i - 1) : bytes[j] # NL
  ELSE 0

\* buf.strip_suffix(b"\n").unwrap_or(&buf)
strip_suffix(buf) ==
  IF buf # <<>> /\ buf[Len(buf)] = NL THEN SubSeq(buf, 1, Len(buf) - 1)
  ELSE buf

\* ReadResult
ReadResult(pipe, line) == [pipe |-> pipe, line |-> line]

\* what the first future returns for the line in its buf
StdoutResult(buf) ==
  IF strip_suffix(buf) = MarkerBytes THEN ReadResult("Stdout", None)
  ELSE ReadResult("Stdout", Some(buf))

\* run_actor has left its loop: read_either returned Stdout(None)
MarkerRead ==
  \E i \in 1..Len(read_results) :
    read_results[i] = ReadResult("Stdout", None)

\* the subprocess writes a byte to its stdout
WriteStdout ==
  /\ stdout_todo # <<>>
  /\ stdout_reader' = Append(stdout_reader, Head(stdout_todo))
  /\ stdout_todo' = Tail(stdout_todo)
  /\ UNCHANGED <<stdout_lines, stderr_todo, stderr_reader, stdout_buf,
                 stderr_buf, read_results>>
  /\ UNCHANGED allButRace

\* the subprocess writes a byte to its stderr
WriteStderr ==
  /\ stderr_todo # <<>>
  /\ stderr_reader' = Append(stderr_reader, Head(stderr_todo))
  /\ stderr_todo' = Tail(stderr_todo)
  /\ UNCHANGED <<stdout_lines, stdout_todo, stdout_reader, stdout_buf,
                 stderr_buf, read_results>>
  /\ UNCHANGED allButRace

\* a poll of the first future with bytes readable and no newline among
\* them: read_until moves them to buf and is pending
PollStdoutPending ==
  /\ ~MarkerRead
  /\ stdout_reader # <<>>
  /\ FirstNewline(stdout_reader) = 0
  /\ stdout_buf' = stdout_buf \o stdout_reader
  /\ stdout_reader' = <<>>
  /\ UNCHANGED <<stdout_lines, stdout_todo, stderr_todo, stderr_reader,
                 stderr_buf, read_results>>
  /\ UNCHANGED allButRace

\* a poll of the first future with a newline readable: read_until is
\* ready, the race is won and read_either returns
PollStdoutReady ==
  /\ ~MarkerRead
  /\ FirstNewline(stdout_reader) # 0
  /\ read_results' =
       Append(read_results,
              StdoutResult(stdout_buf
                \o SubSeq(stdout_reader, 1, FirstNewline(stdout_reader))))
  /\ stdout_reader' = SubSeq(stdout_reader, FirstNewline(stdout_reader) + 1,
                             Len(stdout_reader))
  /\ stdout_buf' = <<>>
  /\ stderr_buf' = <<>>
  /\ UNCHANGED <<stdout_lines, stdout_todo, stderr_todo, stderr_reader>>
  /\ UNCHANGED allButRace

\* the same poll of the second future, pending
PollStderrPending ==
  /\ ~MarkerRead
  /\ stderr_reader # <<>>
  /\ FirstNewline(stderr_reader) = 0
  /\ stderr_buf' = stderr_buf \o stderr_reader
  /\ stderr_reader' = <<>>
  /\ UNCHANGED <<stdout_lines, stdout_todo, stderr_todo, stdout_reader,
                 stdout_buf, read_results>>
  /\ UNCHANGED allButRace

\* the same poll of the second future, ready
PollStderrReady ==
  /\ ~MarkerRead
  /\ FirstNewline(stderr_reader) # 0
  /\ read_results' =
       Append(read_results,
              ReadResult("Stderr",
                Some(stderr_buf
                  \o SubSeq(stderr_reader, 1, FirstNewline(stderr_reader)))))
  /\ stderr_reader' = SubSeq(stderr_reader, FirstNewline(stderr_reader) + 1,
                             Len(stderr_reader))
  /\ stdout_buf' = <<>>
  /\ stderr_buf' = <<>>
  /\ UNCHANGED <<stdout_lines, stdout_todo, stderr_todo, stdout_reader>>
  /\ UNCHANGED allButRace

\* no command being read byte by byte
RaceIdle ==
  /\ stdout_lines = <<>>
  /\ stdout_todo = <<>>
  /\ stderr_todo = <<>>
  /\ stdout_reader = <<>>
  /\ stderr_reader = <<>>
  /\ stdout_buf = <<>>
  /\ stderr_buf = <<>>
  /\ read_results = <<>>

\* ------------------------------------------------------------------------
\* The two bounded channels between the submitters, run_actor and the
\* LineStreams: bounded(16) of LedgerHandle::spawn carries the commands,
\* bounded(64) of LedgerHandle::send carries the events of one command.
\* The subprocess is left out: run_actor sends the events of a response
\* that is chosen freely.
\* ------------------------------------------------------------------------
\* number of send() calls made by the submitters
MaxSubmit == 17

\* the most Line events of a response
MaxLines == 66

Submits == 1..MaxSubmit

\* the commands whose LineStream is polled: the last one that fits into
\* the command channel while run_actor has taken none; the receivers of
\* the others are held and not polled yet
Streams == {CmdQueueCap}

\* the commands whose LineStream may be dropped
Droppable == {1} \cup Streams

\* the most Line events of the response of command k: the command with
\* the polled stream has the long response
LineBudget(k) == IF k \in Streams THEN MaxLines ELSE 0

\* the numbers of Line events a response of command k may have
ResponseLengths(k) == {0, LineBudget(k)}

\* the results run_actor may end command k with
DoneResults(k) == IF k \in Streams THEN {"Ok", "Stderr"} ELSE {"Ok"}

Line(n) == [type |-> "Line", n |-> n, res |-> ""]

Done(res) == [type |-> "Done", n |-> 0, res |-> res]

\* the channel never reports itself full
FullNever(ch, cap) == FALSE

\* a bounded channel suspends its sender while it holds cap messages
Full(ch, cap) == Len(ch) >= cap

\* self.cmd_tx.send(LedgerCommand {..}).await of the call id, on a channel
\* that is not full, or whose receiver is gone
SendCommand(id) ==
  IF worker = "dead"
  THEN /\ send_res' = [send_res EXCEPT ![id] = "ChannelClosed"]
       /\ tx_dropped' = [tx_dropped EXCEPT ![id] = TRUE]
       /\ rx_dropped' = [rx_dropped EXCEPT ![id] = TRUE]
       /\ UNCHANGED cmd_chan
  ELSE /\ ~Full(cmd_chan, CmdQueueCap)
       /\ cmd_chan' = Append(cmd_chan, id)
       /\ send_res' = [send_res EXCEPT ![id] = "Ok"]
       /\ UNCHANGED <<tx_dropped, rx_dropped>>

\* LedgerHandle::send is called and returns
HandleSend ==
  /\ submits < MaxSubmit
  /\ worker = "dead" \/ ~Full(cmd_chan, CmdQueueCap)
  /\ submits' = submits + 1
  /\ SendCommand(submits + 1)
  /\ UNCHANGED <<worker, w_cur, resp, produced, yielded>>
  /\ UNCHANGED allButChan

\* LedgerHandle::send is called and suspends on the full command channel
HandleSendSuspends ==
  /\ submits < MaxSubmit
  /\ worker # "dead" /\ Full(cmd_chan, CmdQueueCap)
  /\ submits' = submits + 1
  /\ send_res' = [send_res EXCEPT ![submits + 1] = "Suspended"]
  /\ UNCHANGED <<worker, w_cur, cmd_chan, resp, tx_dropped, rx_dropped,
                 produced, yielded>>
  /\ UNCHANGED allButChan

\* a suspended LedgerHandle::send goes on
HandleSendResumes ==
  /\ \E id \in Submits :
       /\ send_res[id] = "Suspended"
       /\ SendCommand(id)
  /\ UNCHANGED <<worker, w_cur, submits, resp, produced, yielded>>
  /\ UNCHANGED allButChan

\* Ledger::spawn fails: run_actor returns and its task drops cmd_rx
WorkerSpawnFails ==
  /\ worker = "spawning"
  /\ worker' = "dead"
  /\ UNCHANGED <<w_cur, cmd_chan, submits, send_res, resp, tx_dropped,
                 rx_dropped, produced, yielded>>
  /\ UNCHANGED allButChan

\* Ledger::spawn succeeds
WorkerSpawned ==
  /\ worker = "spawning"
  /\ worker' = "idle"
  /\ UNCHANGED <<w_cur, cmd_chan, submits, send_res, resp, tx_dropped,
                 rx_dropped, produced, yielded>>
  /\ UNCHANGED allButChan

\* `while let Ok(command) = cmd_rx.recv().await`
WorkerRecv ==
  /\ worker = "idle"
  /\ cmd_chan # <<>>
  /\ w_cur' = Head(cmd_chan)
  /\ cmd_chan' = Tail(cmd_chan)
  /\ worker' = "serving"
  /\ UNCHANGED <<submits, send_res, resp, tx_dropped, rx_dropped, produced,
                 yielded>>
  /\ UNCHANGED allButChan

\* response_tx.send(LedgerEvent::Line(line)).await; a failed send drains
\* and breaks, which drops response_tx
WorkerLine ==
  /\ worker = "serving"
  /\ Len(produced[w_cur]) < LineBudget(w_cur)
  /\ IF rx_dropped[w_cur]
     THEN /\ tx_dropped' = [tx_dropped EXCEPT ![w_cur] = TRUE]
          /\ worker' = "idle"
          /\ w_cur' = 0
          /\ UNCHANGED <<resp, produced>>
     ELSE /\ ~Full(resp[w_cur], ResponseCap)
          /\ resp' = [resp EXCEPT
                        ![w_cur] = Append(@, Line(Len(produced[w_cur]) + 1))]
          /\ produced' = [produced EXCEPT
                            ![w_cur] = Append(@, Line(Len(@) + 1))]
          /\ UNCHANGED <<worker, w_cur, tx_dropped>>
  /\ UNCHANGED <<cmd_chan, submits, send_res, rx_dropped, yielded>>
  /\ UNCHANGED allButChan

\* response_tx.send(LedgerEvent::Done(..)).await.map_err(ActorError::Send)?
\* and the end of the loop body, which drops response_tx
WorkerDone ==
  /\ worker = "serving"
  /\ Len(produced[w_cur]) \in ResponseLengths(w_cur)
  /\ IF rx_dropped[w_cur]
     THEN /\ worker' = "dead"
          /\ UNCHANGED <<resp, produced>>
     ELSE /\ ~Full(resp[w_cur], ResponseCap)
          /\ \E res \in DoneResults(w_cur) :
               /\ resp' = [resp EXCEPT ![w_cur] = Append(@, Done(res))]
               /\ produced' = [produced EXCEPT ![w_cur] = Append(@, Done(res))]
          /\ worker' = "idle"
  /\ tx_dropped' = [tx_dropped EXCEPT ![w_cur] = TRUE]
  /\ w_cur' = 0
  /\ UNCHANGED <<cmd_chan, submits, send_res, rx_dropped, yielded>>
  /\ UNCHANGED allButChan

\* the commands left in the command channel of a terminated run_actor are
\* destroyed, and their response_tx with them; when this happens is up to
\* the channel (with the receiver, or with the last LedgerHandle)
QueueDestroyed ==
  /\ worker = "dead"
  /\ cmd_chan # <<>>
  /\ tx_dropped' = [k \in Submits |->
                      tx_dropped[k] \/ \E i \in 1..Len(cmd_chan) : cmd_chan[i] = k]
  /\ cmd_chan' = <<>>
  /\ UNCHANGED <<worker, w_cur, submits, send_res, resp, rx_dropped,
                 produced, yielded>>
  /\ UNCHANGED allButChan

\* every Done event read as the end of the stream
ItemOfDoneIsTheEnd(ev) ==
  IF ev.type = "Line" THEN [item |-> "Ok", n |-> ev.n]
  ELSE [item |-> "None", n |-> 0]

\* what LineStream::poll_next makes of an event rx.recv() returned:
\* Some(Ok(line)), None or Some(Err(e))
ItemOf(ev) ==
  IF ev.type = "Line" THEN [item |-> "Ok", n |-> ev.n]
  ELSE IF ev.res = "Ok" THEN [item |-> "None", n |-> 0]
  ELSE [item |-> ev.res, n |-> 0]

BrokenPipe == [item |-> "BrokenPipe", n |-> 0]

\* the stream has yielded the broken pipe
Broken(items) ==
  IF items = <<>> THEN FALSE ELSE items[Len(items)] = BrokenPipe

\* LineStream::poll_next returns Poll::Ready: rx.recv() takes the oldest
\* event, or fails on a channel that is empty and closed.  A stream that
\* has yielded the broken pipe is not polled again.
LineStream_poll_next ==
  /\ \E k \in Streams :
       /\ send_res[k] = "Ok"
       /\ ~rx_dropped[k]
       /\ ~Broken(yielded[k])
       /\ IF resp[k] # <<>>
          THEN /\ yielded' = [yielded EXCEPT ![k] = Append(@, ItemOf(Head(resp[k])))]
               /\ resp' = [resp EXCEPT ![k] = Tail(@)]
          ELSE /\ tx_dropped[k]
               /\ yielded' = [yielded EXCEPT ![k] = Append(@, BrokenPipe)]
               /\ UNCHANGED resp
  /\ UNCHANGED <<worker, w_cur, cmd_chan, submits, send_res, tx_dropped,
                 rx_dropped, produced>>
  /\ UNCHANGED allButChan

\* the consumer drops its LineStream, and the Receiver with it
DropStream ==
  /\ \E k \in Droppable :
       /\ send_res[k] = "Ok"
       /\ ~rx_dropped[k]
       /\ rx_dropped' = [rx_dropped EXCEPT ![k] = TRUE]
  /\ UNCHANGED <<worker, w_cur, cmd_chan, submits, send_res, resp,
                 tx_dropped, produced, yielded>>
  /\ UNCHANGED allButChan

\* LedgerHandle::spawn has returned and nothing was sent
ChannelIdle ==
  /\ worker = "spawning"
  /\ w_cur = 0
  /\ cmd_chan = <<>>
  /\ submits = 0
  /\ send_res = [k \in Submits |-> ""]
  /\ resp = [k \in Submits |-> <<>>]
  /\ tx_dropped = [k \in Submits |-> FALSE]
  /\ rx_dropped = [k \in Submits |-> FALSE]
  /\ produced = [k \in Submits |-> <<>>]
  /\ yielded = [k \in Submits |-> <<>>]

\* ------------------------------------------------------------------------
\* SexpStream over a stream of lines.  The inner stream yields the lines
\* of sx_lines and then ends, cleanly or with an error.
\* ------------------------------------------------------------------------
\* the most lines of the inner stream
MaxSexpLines == 3

\* the lines: one that opens the outer list, one with two children, one
\* that closes a list, one with a token that is no integer, one with a
\* child and the start of a nested list
SexpLines ==
  { <<"(", NL>>, <<"(", "a", ")", " ", "b", NL>>, <<")", NL>>,
    <<"1", "x", NL>>, <<"c", " ", "(", NL>> }

RECURSIVE SexpInputs(_)
SexpInputs(n) ==
  IF n = 0 THEN {<<>>}
  ELSE SexpInputs(n - 1)
         \cup { Append(ls, l) : ls \in { x \in SexpInputs(n - 1) : Len(x) = n - 1 },
                                l \in SexpLines }

\* the last item of the inner stream: None, or Some(Err(e))
NoError == [kind |-> "", text |-> <<>>]

SexpEnds ==
  { NoError, [kind |-> "Stderr", text |-> <<"E">>],
    [kind |-> "BrokenPipe", text |-> <<>>] }

\* LedgerError::Stderr(format!("S-expression parse error: {e}"))
ParseError(e) == [kind |-> "Stderr", text |-> <<"S-expression parse error: ", e>>]

\* what poll_next returns, with what it came from
SomeOk(value) ==
  [item |-> "Ok", value |-> <<value>>, err |-> NoError, cause |-> "pending"]

SomeErr(e, cause) ==
  [item |-> "Err", value |-> <<>>, err |-> e, cause |-> cause]

EndOfStream(cause) ==
  [item |-> "None", value |-> <<>>, err |-> NoError, cause |-> cause]

RECURSIVE Reverse(_)
Reverse(q) == IF q = <<>> THEN <<>> ELSE Append(Reverse(Tail(q)), Head(q))

\* the fields of a SexpStream and of its inner stream
SexpState ==
  [lines |-> sx_lines, ended |-> sx_ended, parser |-> sx_parser,
   pending |-> sx_pending, finished |-> sx_finished, fed |-> sx_fed]

Returns(st, item) == [st |-> st, item |-> item]

\* a plausible slip: a failed take() does not finish the stream
TakeFailsGoesOn(st, e) ==
  Returns([st EXCEPT !.lines = Tail(@), !.fed = Append(@, Head(st.lines))],
          SomeErr(ParseError(e), "take"))

\* `if let Err(e) = this.parser.take(&line)`: the stream is finished and
\* the parse error returned
TakeFails(st, e) ==
  Returns([st EXCEPT !.lines = Tail(@), !.fed = Append(@, Head(st.lines)),
                     !.finished = TRUE],
          SomeErr(ParseError(e), "take"))

\* a plausible slip: the completed values are not reversed before they are
\* popped from the end
AfterLineUnreversed(st, p) ==
  [st EXCEPT !.lines = Tail(@), !.fed = Append(@, Head(st.lines)),
             !.parser = [p EXCEPT !.output = <<>>],
             !.pending = IF drain_output(p) # <<>> THEN drain_output(p) ELSE @]

\* the state after a line was taken: `completed.reverse();
\* *this.pending = completed` when drain_output() returned values
AfterLine(st, p) ==
  [st EXCEPT !.lines = Tail(@), !.fed = Append(@, Head(st.lines)),
             !.parser = [p EXCEPT !.output = <<>>],
             !.pending = IF drain_output(p) # <<>>
                         THEN Reverse(drain_output(p)) ELSE @]

\* the loop of SexpStream::poll_next up to its return, for an inner
\* stream that is never pending
RECURSIVE PollLoop(_)
PollLoop(st) ==
  IF st.pending # <<>>
  THEN Returns([st EXCEPT !.pending = SubSeq(@, 1, Len(@) - 1)],
               SomeOk(st.pending[Len(st.pending)]))
  ELSE IF st.finished
  THEN Returns(st, EndOfStream("finished"))
  ELSE IF st.lines # <<>>
  THEN LET r == take(st.parser, Head(st.lines)) IN
         IF ~r.ok THEN TakeFails(st, r.err)
         ELSE PollLoop(AfterLine(st, r.p))
  ELSE IF sx_end # NoError
  THEN Returns([st EXCEPT !.finished = TRUE, !.ended = TRUE],
               SomeErr(sx_end, "inner"))
  ELSE LET f == finish(st.parser)
           done == [st EXCEPT !.finished = TRUE, !.ended = TRUE,
                              !.parser = ParserNew]
       IN IF f.kind = "Ok"
          THEN IF f.values = <<>>
               THEN Returns(done, EndOfStream("end"))
               ELSE PollLoop([done EXCEPT !.pending = Reverse(f.values)])
          ELSE Returns(done, SomeErr(ParseError(f.err), "finish"))

\* the stream has returned None twice
PolledOut ==
  \E i, j \in 1..Len(sx_items) :
    i < j /\ sx_items[i].item = "None" /\ sx_items[j].item = "None"

\* SexpStream::poll_next returns Poll::Ready
SexpStream_poll_next ==
  /\ ~PolledOut
  /\ LET r == PollLoop(SexpState) IN
       /\ sx_lines' = r.st.lines
       /\ sx_ended' = r.st.ended
       /\ sx_parser' = r.st.parser
       /\ sx_pending' = r.st.pending
       /\ sx_finished' = r.st.finished
       /\ sx_fed' = r.st.fed
       /\ sx_items' = Append(sx_items, r.item)
  /\ UNCHANGED sx_end
  /\ UNCHANGED allButSexp

\* no SexpStream
SexpIdle ==
  /\ sx_lines = <<>>
  /\ sx_end = NoError
  /\ sx_ended = FALSE
  /\ sx_parser = ParserNew
  /\ sx_pending = <<>>
  /\ sx_finished = FALSE
  /\ sx_fed = <<>>
  /\ sx_items = <<>>

\* ------------------------------------------------------------------------
\* crates/ledger-cli: one Ledger on a PTY, and the threads of its
\* execute() calls.  The output of ledger is taken chunk by chunk, a chunk
\* being what one read() returns; the chunk that ends a response ends with
\* the prompt.
\* ------------------------------------------------------------------------
\* number of execute() calls
MaxCalls == 2

\* number of chunks of a response before the one with the prompt
MaxChunks == 2

Calls == 1..MaxCalls

Chunk(call, n, prompt) == [call |-> call, n |-> n, prompt |-> prompt]

\* execute() spawns its thread, which locks the writer, writes its
\* command line and flushes
execute ==
  /\ \E t \in Calls :
       /\ th_pc[t] = "new"
       /\ th_pc' = [th_pc EXCEPT ![t] = "reading"]
       /\ pty_in' = Append(pty_in, t)
  /\ UNCHANGED <<pty_run, pty_printed, pty_out, th_got>>
  /\ UNCHANGED allButPty

\* ledger prints a chunk of the response to the oldest command line it
\* has not answered yet
LedgerPrints ==
  /\ pty_run < Len(pty_in)
  /\ pty_printed < MaxChunks
  /\ pty_out' = Append(pty_out, Chunk(pty_in[pty_run + 1], pty_printed + 1, FALSE))
  /\ pty_printed' = pty_printed + 1
  /\ UNCHANGED <<pty_in, pty_run, th_pc, th_got>>
  /\ UNCHANGED allButPty

\* ledger prints the end of the response and the prompt
LedgerPrompts ==
  /\ pty_run < Len(pty_in)
  /\ pty_out' = Append(pty_out, Chunk(pty_in[pty_run + 1], pty_printed + 1, TRUE))
  /\ pty_printed' = 0
  /\ pty_run' = pty_run + 1
  /\ UNCHANGED <<pty_in, th_pc, th_got>>
  /\ UNCHANGED allButPty

\* one turn of the loop of a thread: it locks the reader, reads what is
\* there, unlocks, and sends the lines read on its channel; the chunk
\* with the prompt ends the loop
ThreadReads ==
  /\ pty_out # <<>>
  /\ \E t \in Calls :
       /\ th_pc[t] = "reading"
       /\ th_got' = [th_got EXCEPT ![t] = Append(@, Head(pty_out))]
       /\ th_pc' = [th_pc EXCEPT
                      ![t] = IF Head(pty_out).prompt THEN "done" ELSE @]
  /\ pty_out' = Tail(pty_out)
  /\ UNCHANGED <<pty_in, pty_run, pty_printed>>
  /\ UNCHANGED allButPty

\* Ledger::new has read the banner and the first prompt
PtyIdle ==
  /\ pty_in = <<>>
  /\ pty_run = 0
  /\ pty_printed = 0
  /\ pty_out = <<>>
  /\ th_pc = [t \in Calls |-> "new"]
  /\ th_got = [t \in Calls |-> <<>>]

\* the parts of the model that a session of the actor, the parser or the
\* decoders does not use
RestIdle == TreeIdle /\ LoadIdle /\ RaceIdle /\ ChannelIdle /\ SexpIdle /\ PtyIdle

\* ------------------------------------------------------------------------
\* Initial state: LedgerHandle::spawn has created the command channel and
\* scheduled run_actor; the subprocess has not been started yet.
\* ------------------------------------------------------------------------
ActorInit ==
  /\ actor = "spawning"
  /\ cur = 0
  /\ stderr_lines = <<>>
  /\ diedOn = ""
  /\ queue = <<>>
  /\ cmds = <<>>
  /\ sent = <<>>
  /\ rxOpen = <<>>
  /\ decided = <<>>
  /\ sendResults = <<>>
  /\ stdin = <<>>
  /\ stdoutPipe = <<>>
  /\ stderrPipe = <<>>
  /\ subAlive = FALSE
  /\ stderrClosed = FALSE
  /\ subRead = 0
  /\ subCmd = -1
  /\ subEmitted = 0
  /\ emitted = [k \in 1..MaxCmds |-> <<>>]
  /\ sentinelOut = {}

Init == ActorInit /\ ParserIdle /\ DecodeIdle /\ RestIdle

\* ------------------------------------------------------------------------
\* LedgerHandle::send
\* ------------------------------------------------------------------------
\* a plausible slip: send() does not notice that the actor is gone
SendNeverFails == FALSE

\* cmd_tx.send fails once the receiver of the command channel is dropped
SendFails == actor = "dead"

send(text) ==
  /\ Len(sendResults) < MaxCmds
  /\ IF SendFails
     THEN /\ sendResults' = Append(sendResults, "ChannelClosed")
          /\ UNCHANGED <<queue, cmds, sent, rxOpen, decided>>
     ELSE /\ Len(queue) < CmdQueueCap
          /\ cmds' = Append(cmds, text)
          /\ queue' = Append(queue, Len(cmds) + 1)
          /\ sent' = Append(sent, <<>>)
          /\ rxOpen' = Append(rxOpen, TRUE)
          /\ decided' = Append(decided, "none")
          /\ sendResults' = Append(sendResults, "Ok")
  /\ UNCHANGED <<actor, cur, stderr_lines, diedOn, subVars, parserVars,
                 decodeVars, restVars>>

\* ------------------------------------------------------------------------
\* The consumer of a response channel
\* ------------------------------------------------------------------------
\* the consumer drops the receiver
DropReceiver(k) ==
  /\ k \in Ids
  /\ rxOpen[k]
  /\ decided[k] = "none"
  /\ rxOpen' = [rxOpen EXCEPT ![k] = FALSE]
  /\ UNCHANGED <<actor, cur, stderr_lines, diedOn, queue, cmds, sent,
                 decided, sendResults, subVars, parserVars, decodeVars, restVars>>

\* ------------------------------------------------------------------------
\* response_tx.send(event).await as run_actor uses it
\* ------------------------------------------------------------------------
\* the send can complete: the receiver is gone (error) or the buffer has room
CanSend(k) == ~rxOpen[k] \/ Len(sent[k]) < ResponseCap

\* a plausible slip: the branch that sends Done(..) lacks its break and the
\* loop goes on reading for the same command
SendDoneAndGoOn(k, ev, how) ==
  /\ CanSend(k)
  /\ IF rxOpen[k]
     THEN /\ sent' = [sent EXCEPT ![k] = Append(@, ev)]
          /\ decided' = decided
          /\ actor' = actor
          /\ diedOn' = diedOn
     ELSE /\ sent' = sent
          /\ decided' = [decided EXCEPT ![k] = "died"]
          /\ actor' = "dead"
          /\ diedOn' = "send"
  /\ cur' = cur
  /\ stderr_lines' = stderr_lines

\* run_actor sends Done(..) with `.map_err(ActorError::Send)?` and goes back to
\* cmd_rx.recv(); a failed send ends run_actor, and LedgerHandle::spawn's
\* expect() drops the command receiver while unwinding
SendDone(k, ev, how) ==
  /\ CanSend(k)
  /\ IF rxOpen[k]
     THEN /\ sent' = [sent EXCEPT ![k] = Append(@, ev)]
          /\ decided' = [decided EXCEPT ![k] = how]
          /\ actor' = "idle"
          /\ diedOn' = diedOn
     ELSE /\ sent' = sent
          /\ decided' = [decided EXCEPT ![k] = "died"]
          /\ actor' = "dead"
          /\ diedOn' = "send"
  /\ cur' = 0
  /\ stderr_lines' = <<>>

\* ------------------------------------------------------------------------
\* Ledger::spawn and Ledger::drain
\* ------------------------------------------------------------------------
\* Command::spawn fails: run_actor returns the error
SpawnFail ==
  /\ actor = "spawning"
  /\ actor' = "dead"
  /\ diedOn' = "spawn"
  /\ UNCHANGED <<cur, stderr_lines, queue, cmds, sent, rxOpen, decided,
                 sendResults, subVars, parserVars, decodeVars, restVars>>

\* the subprocess starts; drain() writes the priming echo
SpawnOk ==
  /\ actor = "spawning"
  /\ actor' = "priming"
  /\ subAlive' = TRUE
  /\ subCmd' = 0
  /\ stdin' = <<[cmd |-> 0, bytes |-> EchoLine]>>
  /\ UNCHANGED <<cur, stderr_lines, diedOn, queue, cmds, sent, rxOpen,
                 decided, sendResults, stdoutPipe, stderrPipe, stderrClosed,
                 subRead, subEmitted, emitted, sentinelOut, parserVars,
                 decodeVars, restVars>>

\* one read_until of drain(): stop at the marker or at end-of-file
drain ==
  /\ actor = "priming"
  /\ IF stdoutPipe # <<>>
     THEN /\ stdoutPipe' = Tail(stdoutPipe)
          /\ actor' = IF IsMarkerLine(Head(stdoutPipe).text)
                      THEN "idle" ELSE "priming"
     ELSE /\ ~subAlive
          /\ stdoutPipe' = stdoutPipe
          /\ actor' = "idle"
  /\ UNCHANGED <<cur, stderr_lines, diedOn, queue, cmds, sent, rxOpen,
                 decided, sendResults, stdin, stderrPipe, subAlive,
                 stderrClosed, subRead, subCmd, subEmitted, emitted,
                 sentinelOut, parserVars, decodeVars, restVars>>

\* ------------------------------------------------------------------------
\* Ledger::command: the lines written for one command
\* ------------------------------------------------------------------------
\* a plausible slip: the newline is written for an empty command too
commandNoSkip(k, text) ==
  <<[cmd |-> k, bytes |-> text \o <<NL>>], [cmd |-> k, bytes |-> EchoLine]>>

command(k, text) ==
  (IF text # <<>> THEN <<[cmd |-> k, bytes |-> text \o <<NL>>]>> ELSE <<>>)
    \o <<[cmd |-> k, bytes |-> EchoLine]>>

\* ------------------------------------------------------------------------
\* run_actor: cmd_rx.recv() and ledger.command()
\* ------------------------------------------------------------------------
\* one iteration start of `while let Ok(command) = cmd_rx.recv().await`:
\* command k leaves the channel, whose other commands are `rest`
Serve(k, rest) ==
  /\ queue' = rest
  /\ IF subAlive
     THEN \* the command and the echo are written and flushed
          /\ stdin' = stdin \o command(k, cmds[k])
          /\ actor' = "reading"
          /\ cur' = k
          /\ stderr_lines' = <<>>
          /\ UNCHANGED <<sent, decided, diedOn>>
     ELSE \* the write fails on the closed pipe: Done(Err(Io)), continue
          /\ stdin' = stdin
          /\ SendDone(k, DoneIo("write"), "done")
  /\ UNCHANGED <<cmds, rxOpen, sendResults, stdoutPipe, stderrPipe,
                 subAlive, stderrClosed, subRead, subCmd, subEmitted, emitted,
                 sentinelOut, parserVars, decodeVars, restVars>>

\* a plausible slip: the newest command is served first
DequeueNewest ==
  /\ actor = "idle"
  /\ queue # <<>>
  /\ Serve(queue[Len(queue)], SubSeq(queue, 1, Len(queue) - 1))

\* the channel is first-in first-out, and recv() is only awaited between
\* two commands
Dequeue ==
  /\ actor = "idle"
  /\ queue # <<>>
  /\ Serve(Head(queue), Tail(queue))

\* ------------------------------------------------------------------------
\* Ledger::read_either: race(stdout, stderr); the race polls the stdout
\* future first, so stdout wins whenever it has a line (or end-of-file)
\* ------------------------------------------------------------------------
StdoutReady == stdoutPipe # <<>> \/ ~subAlive

StderrReady == stderrPipe # <<>> \/ stderrClosed

read_either ==
  IF StdoutReady
  THEN IF stdoutPipe # <<>>
       THEN IF IsMarkerLine(Head(stdoutPipe).text)
            THEN [src |-> "Stdout", some |-> FALSE, item |-> Head(stdoutPipe)]
            ELSE [src |-> "Stdout", some |-> TRUE, item |-> Head(stdoutPipe)]
       ELSE [src |-> "Stdout", some |-> FALSE, item |-> [cmd |-> -1, text |-> <<>>]]
  ELSE IF stderrPipe # <<>>
       THEN [src |-> "Stderr", some |-> TRUE, item |-> Head(stderrPipe)]
       ELSE [src |-> "Stderr", some |-> FALSE, item |-> [cmd |-> -1, text |-> <<>>]]

\* which pipe the race took a line from
PipesAfterRead(r) ==
  /\ stdoutPipe' = IF r.src = "Stdout" /\ r.item.cmd # -1
                   THEN Tail(stdoutPipe) ELSE stdoutPipe
  /\ stderrPipe' = IF r.src = "Stderr" /\ r.item.cmd # -1
                   THEN Tail(stderrPipe) ELSE stderrPipe

\* how the stdout side ended the response: the marker line or end-of-file
EndedBy(r) == IF r.item.cmd = -1 THEN "eof" ELSE "marker"

EndedFrom(r) == IF r.item.cmd = -1 THEN {} ELSE {r.item.cmd}

\* Ok(ReadResult::Stdout(Some(line)))
StdoutLine ==
  /\ actor = "reading"
  /\ StdoutReady
  /\ LET r == read_either IN
       /\ r.src = "Stdout" /\ r.some
       /\ CanSend(cur)
       /\ PipesAfterRead(r)
       /\ IF rxOpen[cur]
          THEN /\ sent' = [sent EXCEPT ![cur] = Append(@, LineEvent(r.item))]
               /\ actor' = "reading"
          ELSE \* receiver dropped: drain the remaining output
               /\ sent' = sent
               /\ actor' = "draining"
  /\ UNCHANGED <<cur, stderr_lines, diedOn, queue, cmds, rxOpen,
                 decided, sendResults, stdin, subAlive, stderrClosed, subRead,
                 subCmd, subEmitted, emitted, sentinelOut, parserVars,
                 decodeVars, restVars>>

\* Ok(ReadResult::Stdout(None)): "Marker reached"
StdoutMarker ==
  /\ actor = "reading"
  /\ StdoutReady
  /\ LET r == read_either IN
       /\ r.src = "Stdout" /\ ~r.some
       /\ PipesAfterRead(r)
       /\ IF stderr_lines = <<>>
          THEN SendDone(cur, DoneOk(EndedFrom(r), EndedBy(r)), "done")
          ELSE SendDone(cur, DoneStderr(stderr_lines, EndedFrom(r), EndedBy(r)),
                        "done")
  /\ UNCHANGED <<queue, cmds, rxOpen, sendResults, stdin, subAlive,
                 stderrClosed, subRead, subCmd, subEmitted, emitted,
                 sentinelOut, parserVars, decodeVars, restVars>>

\* Ok(ReadResult::Stderr(Some(line)))
StderrLine ==
  /\ actor = "reading"
  /\ ~StdoutReady /\ StderrReady
  /\ LET r == read_either IN
       /\ r.src = "Stderr" /\ r.some
       /\ PipesAfterRead(r)
       /\ stderr_lines' = Append(stderr_lines, r.item)
  /\ UNCHANGED <<actor, cur, diedOn, queue, cmds, sent, rxOpen, decided,
                 sendResults, stdin, subAlive, stderrClosed, subRead, subCmd,
                 subEmitted, emitted, sentinelOut, parserVars, decodeVars, restVars>>

\* the terminal event of the Stderr(None) branch with every end-of-file
\* reported as a command error
StderrClosedAlwaysStderr(lines) == DoneStderr(lines, {}, "stderr_eof")

\* the terminal event of the Stderr(None) branch: "Stderr closed" when
\* stderr_lines.is_empty(), the joined and trimmed lines otherwise
StderrClosed(lines) ==
  IF lines = <<>>
  THEN DoneIo("stderr_eof")
  ELSE DoneStderr(lines, {}, "stderr_eof")

\* Ok(ReadResult::Stderr(None)): stderr reached end-of-file
StderrEof ==
  /\ actor = "reading"
  /\ ~StdoutReady /\ StderrReady
  /\ LET r == read_either IN
       /\ r.src = "Stderr" /\ ~r.some
       /\ PipesAfterRead(r)
       /\ SendDone(cur, StderrClosed(stderr_lines), "done")
  /\ UNCHANGED <<queue, cmds, rxOpen, sendResults, stdin, subAlive,
                 stderrClosed, subRead, subCmd, subEmitted, emitted,
                 sentinelOut, parserVars, decodeVars, restVars>>

\* ------------------------------------------------------------------------
\* Ledger::read_line in the drain loop after a failed Line send:
\* `while let Ok(Some(_)) = ledger.read_line().await {}` then break
\* ------------------------------------------------------------------------
read_line ==
  /\ actor = "draining"
  /\ StdoutReady
  /\ IF stdoutPipe # <<>>
     THEN /\ stdoutPipe' = Tail(stdoutPipe)
          /\ IF IsMarkerLine(Head(stdoutPipe).text)
             THEN /\ actor' = "idle"
                  /\ cur' = 0
                  /\ stderr_lines' = <<>>
                  /\ decided' = [decided EXCEPT ![cur] = "abandoned"]
             ELSE UNCHANGED <<actor, cur, stderr_lines, decided>>
     ELSE /\ stdoutPipe' = stdoutPipe
          /\ actor' = "idle"
          /\ cur' = 0
          /\ stderr_lines' = <<>>
          /\ decided' = [decided EXCEPT ![cur] = "abandoned"]
  /\ UNCHANGED <<diedOn, queue, cmds, sent, rxOpen, sendResults, stdin,
                 stderrPipe, subAlive, stderrClosed, subRead, subCmd,
                 subEmitted, emitted, sentinelOut, parserVars, decodeVars, restVars>>

\* ------------------------------------------------------------------------
\* The subprocess (the ledger REPL): executes the stdin lines in order.
\* The Ledger value, and with it the actor's ends of the three pipes, lives
\* in run_actor's frame: once run_actor has returned nothing the subprocess
\* does is read any more.
\* ------------------------------------------------------------------------
Connected == subAlive /\ actor # "dead"

\* reads the next stdin line; an echo line prints the sentinel, any other
\* line starts a command whose output follows
SubReadLine ==
  /\ Connected
  /\ subRead < Len(stdin)
  /\ LET l == stdin[subRead + 1] IN
       /\ subRead' = subRead + 1
       /\ IF l.bytes = EchoLine
          THEN /\ stdoutPipe' =
                    Append(stdoutPipe, [cmd |-> l.cmd, text |-> SentinelLine])
               /\ sentinelOut' = sentinelOut \cup {l.cmd}
               /\ subCmd' = -1
          ELSE /\ subCmd' = l.cmd
               /\ UNCHANGED <<stdoutPipe, sentinelOut>>
  /\ UNCHANGED <<actorVars, stdin, stderrPipe, subAlive, stderrClosed,
                 subEmitted, emitted, parserVars, decodeVars, restVars>>

\* the number, within its response, of the line about to be printed
LineNo == IF subCmd >= 1 THEN Len(emitted[subCmd]) + 1 ELSE 1

\* prints one line of the running command's output, or of the banner that
\* precedes the priming echo (subCmd = 0)
SubPrintStdout ==
  /\ Connected
  /\ subCmd >= 0
  /\ subEmitted < MaxOut
  /\ subEmitted' = subEmitted + 1
  /\ stdoutPipe' = Append(stdoutPipe, [cmd |-> subCmd,
                                       text |-> StdoutText(LineNo)])
  /\ emitted' = IF subCmd = 0 THEN emitted
                ELSE [emitted EXCEPT ![subCmd] =
                   Append(@, [s |-> "out", text |-> StdoutText(LineNo)])]
  /\ UNCHANGED <<actorVars, stdin, stderrPipe, subAlive, stderrClosed, subRead,
                 subCmd, sentinelOut, parserVars, decodeVars, restVars>>

SubPrintStderr ==
  /\ Connected
  /\ ~stderrClosed
  /\ subCmd >= 1
  /\ subEmitted < MaxOut
  /\ subEmitted' = subEmitted + 1
  /\ stderrPipe' = Append(stderrPipe, [cmd |-> subCmd,
                                       text |-> StderrText(LineNo)])
  /\ emitted' = [emitted EXCEPT ![subCmd] =
                   Append(@, [s |-> "err", text |-> StderrText(LineNo)])]
  /\ UNCHANGED <<actorVars, stdin, stdoutPipe, subAlive, stderrClosed, subRead,
                 subCmd, sentinelOut, parserVars, decodeVars, restVars>>

\* the subprocess closes its stderr
SubCloseStderr ==
  /\ Connected
  /\ ~stderrClosed
  /\ stderrClosed' = TRUE
  /\ UNCHANGED <<actorVars, stdin, stdoutPipe, stderrPipe, subAlive, subRead,
                 subCmd, subEmitted, emitted, sentinelOut, parserVars,
                 decodeVars, restVars>>

\* the subprocess exits: all its pipes are closed
SubExit ==
  /\ Connected
  /\ subAlive' = FALSE
  /\ stderrClosed' = TRUE
  /\ subCmd' = -1
  /\ UNCHANGED <<actorVars, stdin, stdoutPipe, stderrPipe, subRead,
                 subEmitted, emitted, sentinelOut, parserVars, decodeVars, restVars>>

\* ------------------------------------------------------------------------
\* The actor with its submitters, consumers and subprocess
\* ------------------------------------------------------------------------
Next ==
  \/ \E text \in CmdTexts : send(text)
  \/ \E k \in Ids : DropReceiver(k)
  \/ SpawnFail
  \/ SpawnOk
  \/ drain
  \/ Dequeue
  \/ StdoutLine
  \/ StdoutMarker
  \/ StderrLine
  \/ StderrEof
  \/ read_line
  \/ SubReadLine
  \/ SubPrintStdout
  \/ SubPrintStderr
  \/ SubCloseStderr
  \/ SubExit

Spec == Init /\ [][Next]_vars

\* ------------------------------------------------------------------------
\* A parsing session: a text is handed to one Parser in chunks, with
\* drain_output() called between chunks at will, and finish() at the end
\* ------------------------------------------------------------------------
\* number of pieces an input text is made of
MaxPieces == 4

\* number of characters of one chunk at most
MaxChunk == 2

\* the pieces: parentheses, an atom behind a blank, an integer, a lone
\* minus sign, a lone quote, and a string literal holding a parenthesis,
\* an escaped quote and an escaped n
Pieces ==
  { <<"(">>, <<")">>, <<" ", "a", "b">>, <<"-", "1", "2">>, <<"-">>,
    <<Q>>, <<Q, "(", BS, Q, BS, "n", Q>> }

RECURSIVE TextsOfPieces(_)
TextsOfPieces(n) ==
  IF n = 0 THEN { <<>> }
  ELSE LET shorter == TextsOfPieces(n - 1) IN
         shorter \cup { t \o piece : t \in shorter, piece \in Pieces }

ParserInit ==
  /\ ActorInit
  /\ RestIdle
  /\ DecodeIdle
  /\ parser = ParserNew
  /\ pinput \in TextsOfPieces(MaxPieces)
  /\ ppos = 0
  /\ drained = <<>>
  /\ presult = NoResult
  /\ pcuts = {}

\* where a chunk ended: inside an atom or integer, inside a string
\* literal, or between a backslash and the character it escapes
CutKind(p) ==
  IF p.state = "InString"
  THEN IF p.escaped THEN {"escape"} ELSE {"string"}
  ELSE IF p.current_atom # <<>> THEN {"token"} ELSE {}

\* the longest chunk that can be given next
ChunkMax == IF Len(pinput) - ppos < MaxChunk THEN Len(pinput) - ppos ELSE MaxChunk

\* the place, in a chunk of n characters on which take() fails, of the
\* character it fails at: the shortest part of the chunk that fails ends there
FailOffset(n) ==
  CHOOSE m \in 1..n :
    /\ ~take(parser, SubSeq(pinput, ppos + 1, ppos + m)).ok
    /\ \A l \in 1..(m - 1) : take(parser, SubSeq(pinput, ppos + 1, ppos + l)).ok

\* parser.take(chunk) on the next n characters of the text
TakeChunk(n) ==
  /\ presult.kind = "none"
  /\ n \in 1..ChunkMax
  /\ LET r == take(parser, SubSeq(pinput, ppos + 1, ppos + n)) IN
       /\ parser' = r.p
       /\ presult' = IF r.ok THEN presult
                     ELSE TakeFailedAt(r.err, ppos + FailOffset(n))
       /\ pcuts' = IF r.ok /\ ppos + n < Len(pinput)
                   THEN pcuts \cup CutKind(r.p) ELSE pcuts
  /\ ppos' = ppos + n
  /\ UNCHANGED <<drained, pinput, actorVars, subVars, decodeVars, restVars>>

\* parser.drain_output()
DrainOutput ==
  /\ presult.kind = "none"
  /\ drained' = drained \o drain_output(parser)
  /\ parser' = [parser EXCEPT !.output = <<>>]
  /\ UNCHANGED <<pinput, ppos, presult, pcuts, actorVars, subVars, decodeVars, restVars>>

\* parser.finish() once the whole text was given
FinishParse ==
  /\ presult.kind = "none"
  /\ ppos = Len(pinput)
  /\ presult' = finish(parser)
  /\ UNCHANGED <<parser, pinput, ppos, drained, pcuts, actorVars, subVars,
                 decodeVars, restVars>>

ParserNext ==
  \/ \E n \in 1..ChunkMax : TakeChunk(n)
  \/ DrainOutput
  \/ FinishParse

ParserSpec == ParserInit /\ [][ParserNext]_vars

\* ------------------------------------------------------------------------
\* A parsing session on one integer-like token: the text is an outer list
\* holding a token that starts with a digit or '-'.  The tokens are a
\* sign or none, leading zeros, digits around the ends of the i64 range or
\* none, and a letter behind them or none.
\* ------------------------------------------------------------------------
\* number of leading zeros of a token at most
MaxZeros == 1

Zeros(k) == [i \in 1..k |-> "0"]

\* digit strings inside the range of both signs
SmallDigits == { <<"7">>, <<"1", "2">>, I64MaxDigits }

\* digit strings outside the range of both signs: 2^63 + 1 and 10^19
LargeDigits ==
  { SubSeq(I64MaxDigits, 1, 18) \o <<"9">>, <<"1">> \o Zeros(19) }

TokenOf(sign, k, digits, tail) == sign \o Zeros(k) \o digits \o tail

TokenParts ==
  { <<>>, <<"-">> } \X (0..MaxZeros)
    \X (SmallDigits \cup LargeDigits \cup { I64MinDigits, <<>> })
    \X { <<>>, <<"x">> }

\* the tokens that are decimal numbers of the i64 range
ValidTokens ==
  { TokenOf(q[1], q[2], q[3], q[4]) : q \in
      { q \in TokenParts :
          /\ q[4] = <<>>
          /\ \/ q[3] \in SmallDigits
             \/ q[3] = I64MinDigits /\ q[1] = <<"-">>
             \/ q[3] = <<>> /\ q[2] > 0 } }

\* the other tokens that start with a digit or '-'
InvalidTokens ==
  { t \in { TokenOf(q[1], q[2], q[3], q[4]) : q \in TokenParts } :
      t # <<>> /\ Head(t) # "x" /\ t \notin ValidTokens }

IntegerInit ==
  /\ ActorInit
  /\ RestIdle
  /\ DecodeIdle
  /\ parser = ParserNew
  /\ pinput \in { <<"(">> \o t \o <<")">> : t \in ValidTokens \cup InvalidTokens }
  /\ ppos = 0
  /\ drained = <<>>
  /\ presult = NoResult
  /\ pcuts = {}

IntegerSpec == IntegerInit /\ [][ParserNext]_vars

\* ------------------------------------------------------------------------
\* Decoding: one of the decoding functions is called on one input.  The
\* inputs are amount texts put together from a decimal, a commodity, a
\* price clause and a date clause, each present or not and well-formed
\* or not, and lists of values put together from elements of the expected
\* and of other kinds.
\* ------------------------------------------------------------------------
Chars(str) ==
  CASE str = "" -> <<>>
    [] str = "dec" -> <<"-", "1", ",", "0", "2", "0", ".", "4", "8">>
    [] str = "int" -> <<"7">>
    [] str = "iso" -> <<"2", "0", "2", "5", "-", "1", "2", "-", "1", "3">>
    [] str = "ymd" -> <<"2", "0", "2", "5", "/", "1", "2", "/", "0", "3">>
    [] str = "epoch" -> <<"1", "7", "6", "5", "5", "8", "4", "0", "0", "0">>
    [] str = "path" -> <<"a", ":", "b">>
    [] str = "gaps" -> <<":", "a", ":", ":", "b", ":">>

Decimals == { Chars("dec"), Chars("int"), <<"x">>, <<>> }

Commodities == { <<>>, <<" ", "G">>, <<" ", Q, "G", " ", "H", Q>> }

PriceClauses ==
  { <<>>,
    <<" ", "{">> \o Chars("dec") \o <<" ", "S", "}">>,
    <<" ", "{">> \o Chars("int") \o <<"}">>,
    <<" ", "{", "}">>, <<" ", "{", "S", "}">>,
    <<" ", "}", "{">>, <<" ", "{">>, <<" ", "}">> }

DateClauses ==
  { <<>>,
    <<" ", "[">> \o Chars("ymd") \o <<"]">>,
    <<" ", "[", " ">> \o Chars("ymd") \o <<" ", "]">>,
    <<" ", "[", "]">>, <<" ", "[">> \o Chars("iso") \o <<"]">>,
    <<" ", "]", "[">>, <<" ", "[">>, <<" ", "]">> }

\* decimal, commodity, price clause, date clause; or the two clauses in
\* the other order
AmountTexts ==
  { d \o c \o pr \o dt : d \in Decimals, c \in Commodities,
                          pr \in PriceClauses, dt \in DateClauses }
  \cup { d \o c \o dt \o pr : d \in Decimals, c \in Commodities,
                               pr \in PriceClauses, dt \in DateClauses }

PostingItems ==
  { I64(Chars("int")) }
    \X { String(Chars("path")), String(Chars("gaps")), Atom(<<"p">>) }
    \X { String(Chars("dec") \o <<" ", "G">>), String(<<"x">>),
         String(<<"}", "{">>), I64(Chars("int")) }
    \X { Atom(<<"p">>) }
    \X { String(<<" ", "n">>), Atom(<<"p">>) }
    \X { Atom(<<"p">>) }

\* every list and every shorter list it starts with
Prefixes(lists) ==
  UNION { { SubSeq(l, 1, k) : k \in 0..Len(l) } : l \in lists }

PostingLists == Prefixes(PostingItems)

\* number of postings of a transaction list at most
MaxPostings == 2

\* a posting that decodes, one whose amount does not, one that is too
\* short, and an element that is no list
PostingValues ==
  { List(<<I64(Chars("int")), String(Chars("path")),
           String(Chars("dec") \o <<" ", "G">>), Atom(<<"p">>)>>),
    List(<<I64(Chars("int")), String(Chars("path")), String(<<"x">>),
           Atom(<<"p">>)>>),
    List(<<I64(Chars("int"))>>),
    Atom(<<"p">>) }

TransactionHeads ==
  { String(<<"f">>), Atom(<<"p">>), I64(Chars("int")) }
    \X { I64(Chars("int")), String(<<"f">>) }
    \X { String(Chars("iso")), I64(Chars("epoch")), String(Chars("epoch")),
         String(<<"x">>) }
    \X { Atom(<<"n", "i", "l">>), String(<<"f">>), I64(Chars("int")) }
    \X { String(<<"K">>), Atom(<<"p">>) }

RECURSIVE PostingSeqs(_)
PostingSeqs(n) ==
  IF n = 0 THEN { <<>> }
  ELSE LET shorter == PostingSeqs(n - 1) IN
         shorter \cup { Append(q, v) : q \in shorter, v \in PostingValues }

TransactionLists ==
  Prefixes(TransactionHeads)
    \cup { h \o q : h \in TransactionHeads, q \in PostingSeqs(MaxPostings) }

DecodeInit ==
  /\ ActorInit
  /\ RestIdle
  /\ ParserIdle
  /\ decoded = NotDecoded
  /\ d128_excess \in D128Excess
  /\ \/ sexpr_value \in TransactionLists \cup PostingLists /\ amount_str = <<>>
     \/ sexpr_value = <<>> /\ amount_str \in AmountTexts

Decoded(op, res) == [op |-> op, res |-> res]

\* Transaction::from_sexpr(list), as TransactionStream::poll_next calls it
DecodeTransaction ==
  /\ decoded = NotDecoded
  /\ decoded' = Decoded("Transaction", TransactionFromSexpr(sexpr_value))
  /\ UNCHANGED <<sexpr_value, amount_str, d128_excess, actorVars, subVars,
                 parserVars, restVars>>

\* Posting::from_sexpr(list)
DecodePosting ==
  /\ decoded = NotDecoded
  /\ decoded' = Decoded("Posting", PostingFromSexpr(sexpr_value))
  /\ UNCHANGED <<sexpr_value, amount_str, d128_excess, actorVars, subVars,
                 parserVars, restVars>>

\* Amount::parse(text)
DecodeAmount ==
  /\ decoded = NotDecoded
  /\ decoded' = Decoded("Amount", AmountParse(amount_str))
  /\ UNCHANGED <<sexpr_value, amount_str, d128_excess, actorVars, subVars,
                 parserVars, restVars>>

DecodeNext == DecodeTransaction \/ DecodePosting \/ DecodeAmount

DecodeSpec == DecodeInit /\ [][DecodeNext]_vars

\* ------------------------------------------------------------------------
\* Decoding of long decimals: Amount::parse on a decimal of up to
\* MaxBlocks blocks of ten digits behind the point, alone or as the price
\* of an amount
\* ------------------------------------------------------------------------
\* number of blocks of ten digits behind the point at most
MaxBlocks == 4

DigitBlock == <<"5", "2", "5", "6", "5", "3", "3", "5", "6", "8">>

RECURSIVE Blocks(_)
Blocks(k) == IF k = 0 THEN <<>> ELSE DigitBlock \o Blocks(k - 1)

\* the digits before the point, as written and without the commas
Wholes ==
  { [text |-> <<"9">>, digits |-> <<"9">>],
    [text |-> <<"1", ",", "2", "3", "4">>, digits |-> <<"1", "2", "3", "4">>] }

Signs == { <<>>, <<"-">> }

LongCommodities == { <<>>, <<" ", "S", "E", "K">> }

\* the text of a decimal of k blocks
LongDecimal(sign, whole, k) ==
  sign \o whole.text \o (IF k = 0 THEN <<>> ELSE <<".">> \o Blocks(k))

\* the decimal as the price of an amount
AsPrice(text) == <<"7", " ", "G", " ", "{">> \o text \o <<"}">>

DecimalInit ==
  /\ ActorInit
  /\ RestIdle
  /\ ParserIdle
  /\ decoded = NotDecoded
  /\ d128_excess \in D128Excess
  /\ sexpr_value = <<>>
  /\ \E sign \in Signs, whole \in Wholes, k \in 0..MaxBlocks,
        c \in LongCommodities :
       amount_str \in { LongDecimal(sign, whole, k) \o c,
                        AsPrice(LongDecimal(sign, whole, k) \o c) }

DecimalNext == DecodeAmount

DecimalSpec == DecimalInit /\ [][DecimalNext]_vars

\* ------------------------------------------------------------------------
\* The account tree alone: a TreeNode::new() and any calls of
\* add_account, add_amount_to_account and clear on it.
\* ------------------------------------------------------------------------
TreeInit ==
  /\ ActorInit
  /\ ParserIdle
  /\ DecodeIdle
  /\ ChannelIdle
  /\ PtyIdle
  /\ SexpIdle
  /\ TreeIdle
  /\ LoadIdle
  /\ RaceIdle

TreeNext == AddAccount \/ AddAmount \/ Clear

TreeSpec == TreeInit /\ [][TreeNext]_vars

\* ------------------------------------------------------------------------
\* The two consumers of the transaction stream: a LedgerState and a
\* RegisterView from their construction on.
\* ------------------------------------------------------------------------
LoadInit ==
  /\ ActorInit
  /\ ParserIdle
  /\ DecodeIdle
  /\ ChannelIdle
  /\ PtyIdle
  /\ SexpIdle
  /\ TreeIdle
  /\ LoadIdle
  /\ RaceIdle

LoadNext ==
  \/ reload_state
  \/ StateUnsent
  \/ StateStreams
  \/ StateTransaction
  \/ StateEnd
  \/ StateError
  \/ run_command
  \/ ViewUnsent
  \/ ViewStreams
  \/ ViewTransaction
  \/ ViewEnd
  \/ ViewError

LoadSpec == LoadInit /\ [][LoadNext]_vars

\* ------------------------------------------------------------------------
\* One command read with read_either: the subprocess is about to write
\* some lines and the sentinel line on stdout and some lines on stderr.
\* ------------------------------------------------------------------------
RaceInit ==
  /\ ActorInit
  /\ ParserIdle
  /\ DecodeIdle
  /\ ChannelIdle
  /\ PtyIdle
  /\ SexpIdle
  /\ TreeIdle
  /\ LoadIdle
  /\ stdout_lines \in LinesUpTo(MaxStdout)
  /\ stdout_todo = BytesOf(stdout_lines) \o MarkerBytes \o <<NL>>
  /\ stderr_todo \in { BytesOf(ls) : ls \in LinesUpTo(MaxStderr) }
  /\ stdout_reader = <<>>
  /\ stderr_reader = <<>>
  /\ stdout_buf = <<>>
  /\ stderr_buf = <<>>
  /\ read_results = <<>>

RaceNext ==
  \/ WriteStdout
  \/ WriteStderr
  \/ PollStdoutPending
  \/ PollStdoutReady
  \/ PollStderrPending
  \/ PollStderrReady

RaceSpec == RaceInit /\ [][RaceNext]_vars

\* ------------------------------------------------------------------------
\* The channels from LedgerHandle::spawn on: submitters, run_actor and the
\* consumers of the LineStreams run concurrently.
\* ------------------------------------------------------------------------
ChannelInit ==
  /\ ActorInit
  /\ ParserIdle
  /\ DecodeIdle
  /\ RestIdle

ChannelNext ==
  \/ HandleSend
  \/ HandleSendSuspends
  \/ HandleSendResumes
  \/ WorkerSpawnFails
  \/ WorkerSpawned
  \/ WorkerRecv
  \/ WorkerLine
  \/ WorkerDone
  \/ QueueDestroyed
  \/ LineStream_poll_next
  \/ DropStream

ChannelSpec == ChannelInit /\ [][ChannelNext]_vars

\* ------------------------------------------------------------------------
\* A SexpStream from SexpStream::new on, polled until it has ended.
\* ------------------------------------------------------------------------
SexpInit ==
  /\ ActorInit
  /\ ParserIdle
  /\ DecodeIdle
  /\ PtyIdle
  /\ TreeIdle
  /\ LoadIdle
  /\ RaceIdle
  /\ ChannelIdle
  /\ sx_lines \in SexpInputs(MaxSexpLines)
  /\ sx_end \in SexpEnds
  /\ sx_ended = FALSE
  /\ sx_parser = ParserNew
  /\ sx_pending = <<>>
  /\ sx_finished = FALSE
  /\ sx_fed = <<>>
  /\ sx_items = <<>>

SexpNext == SexpStream_poll_next

SexpSpec == SexpInit /\ [][SexpNext]_vars

\* ------------------------------------------------------------------------
\* A ledger-cli Ledger from Ledger::new on, with its execute() calls made
\* at any time.
\* ------------------------------------------------------------------------
PtyInit ==
  /\ ActorInit
  /\ ParserIdle
  /\ DecodeIdle
  /\ RestIdle

PtyNext == execute \/ LedgerPrints \/ LedgerPrompts \/ ThreadReads

PtySpec == PtyInit /\ [][PtyNext]_vars

\* ------------------------------------------------------------------------
\* Vocabulary of the properties
\* ------------------------------------------------------------------------
Last(q) == q[Len(q)]

\* the last of the events is the terminal event
HasDoneIn(evs) == evs # <<>> /\ Last(evs).type = "Done"

\* the response channel of k carries its terminal event
HasDone(k) == HasDoneIn(sent[k])

RECURSIVE TextsOf(_, _)
TextsOf(items, stream) ==
  IF items = <<>> THEN <<>>
  ELSE (IF Head(items).s = stream THEN <<Head(items).text>> ELSE <<>>)
         \o TextsOf(Tail(items), stream)

RECURSIVE Concat(_)
Concat(texts) == IF texts = <<>> THEN <<>> ELSE Head(texts) \o Concat(Tail(texts))

\* the lines the subprocess printed for command k, per stream, in order
StdoutOf(k) == TextsOf(emitted[k], "out")

StderrOf(k) == TextsOf(emitted[k], "err")

\* the subprocess runs and none of its pipes has reached end-of-file
PipesIntact == subAlive /\ ~stderrClosed

\* the subprocess has printed the whole response of k and no pipe has failed
Responded(k) == k \in sentinelOut /\ PipesIntact

Views(evs) == [i \in 1..Len(evs) |-> View(evs[i])]

LineViews(texts) ==
  [i \in 1..Len(texts) |-> [type |-> "Line", text |-> texts[i], res |-> ""]]

DoneOkView == [type |-> "Done", text |-> <<>>, res |-> "Ok"]

DoneStderrView(t) == [type |-> "Done", text |-> t, res |-> "Stderr"]

\* ------------------------------------------------------------------------
\* C1: a command whose response is stdout lines followed by the sentinel,
\* with nothing on stderr, delivers one Line per stdout line, in the order
\* printed, then Done(Ok); the sentinel is not delivered as a Line.
\* ------------------------------------------------------------------------
C1_StdoutOnlyResponseSucceeds ==
  \A k \in Ids :
    (Responded(k) /\ StderrOf(k) = <<>> /\ rxOpen[k] /\ HasDone(k))
      => Views(sent[k]) = LineViews(StdoutOf(k)) \o <<DoneOkView>>

\* ------------------------------------------------------------------------
\* C2: a command for which the subprocess printed at least one stderr line
\* before the sentinel ends with Done(Err(Stderr(t))), t the trimmed
\* concatenation of those lines, and never with Done(Ok).
\* ------------------------------------------------------------------------
C2_StderrBeforeSentinelIsError ==
  \A k \in Ids :
    (Responded(k) /\ StderrOf(k) # <<>> /\ HasDone(k))
      => View(Last(sent[k])) = DoneStderrView(Trim(Concat(StderrOf(k))))

\* ------------------------------------------------------------------------
\* C3: after a consumer dropped its receiver while its command was being
\* answered, nothing the subprocess printed for the abandoned command is
\* attributed to the next command.
\* ------------------------------------------------------------------------
C3_NextCommandGetsOnlyItsOwnOutput ==
  \A k \in Ids :
    (k > 1 /\ decided[k - 1] = "abandoned" /\ PipesIntact)
      => \A i \in 1..Len(sent[k]) : (k - 1) \notin sent[k][i].from

\* ------------------------------------------------------------------------
\* C4: a consumer that stops listening never ends the actor: the actor
\* discards the rest of that command's output and serves the next command.
\* ------------------------------------------------------------------------
C4_ActorSurvivesDroppedReceiver ==
  \A k \in Ids : (~rxOpen[k] /\ PipesIntact) => decided[k] # "died"

\* ------------------------------------------------------------------------
\* C5: stdin carries, for each command in turn, its text and a newline
\* (nothing when the text is empty) followed by one echo of the marker, and
\* no line of a command is written before the command before it was decided
\* (Done sent, or abandoned and drained).
\* ------------------------------------------------------------------------
C5_StdinIsSerialized ==
  \A i \in 1..Len(stdin) :
    LET l == stdin[i] IN
      /\ \/ /\ l.bytes = EchoLine
            /\ i = 1 => l.cmd = 0
            /\ i > 1 => \/ stdin[i - 1].cmd < l.cmd /\ stdin[i - 1].bytes = EchoLine
                           /\ cmds[l.cmd] = <<>>
                        \/ stdin[i - 1].cmd = l.cmd /\ stdin[i - 1].bytes # EchoLine
         \/ /\ l.cmd >= 1
            /\ cmds[l.cmd] # <<>>
            /\ l.bytes = cmds[l.cmd] \o <<NL>>
            /\ i > 1 /\ stdin[i - 1].cmd < l.cmd /\ stdin[i - 1].bytes = EchoLine
            /\ i < Len(stdin) /\ stdin[i + 1] = [cmd |-> l.cmd, bytes |-> EchoLine]
      /\ l.cmd >= 1 => \A j \in 1..(l.cmd - 1) : decided[j] # "none"
      /\ l.cmd >= 1 /\ decided[l.cmd] = "none" => cur = l.cmd

\* two commands were written, one with a text and one without, the second
\* after the first was decided
C5_Witness ==
  /\ Len(cmds) >= 2
  /\ \E i, j \in 1..Len(stdin) :
       /\ stdin[i].cmd >= 1 /\ stdin[j].cmd >= 1 /\ stdin[i].cmd # stdin[j].cmd
       /\ cmds[stdin[i].cmd] = <<>> /\ cmds[stdin[j].cmd] # <<>>

\* ------------------------------------------------------------------------
\* C6 as claimed: when a command has any event, the terminal event of every
\* command accepted before it has been sent.
\* ------------------------------------------------------------------------
C6_TerminalEventBeforeLaterEvents ==
  \A a, b \in Ids : (a < b /\ sent[b] # <<>>) => HasDone(a)

\* ------------------------------------------------------------------------
\* C6 amended: when a command has any event, every command accepted before
\* it has been decided -- its terminal event was sent, or its receiver was
\* dropped and its output drained -- and two commands never have events
\* being produced at the same time.
\* ------------------------------------------------------------------------
C6_DecidedBeforeLaterEvents ==
  /\ \A a, b \in Ids :
       (a < b /\ sent[b] # <<>>)
         => (HasDone(a) \/ (decided[a] = "abandoned" /\ ~rxOpen[a]))
  /\ \A k \in Ids : (sent[k] # <<>> /\ ~HasDone(k) /\ rxOpen[k]) => cur = k
  /\ \A k \in Ids : decided[k] = "none" /\ k # cur => sent[k] = <<>>

\* a later command has events although an earlier one was abandoned
C6_Witness ==
  \E a, b \in Ids :
    a < b /\ sent[b] # <<>> /\ decided[a] = "abandoned" /\ sent[a] # <<>>

\* ------------------------------------------------------------------------
\* C7: a command whose response ends with stdout's end-of-file instead of
\* the sentinel terminates with an error event, never with Done(Ok).
\* ------------------------------------------------------------------------
C7_EofBeforeSentinelIsError ==
  \A k \in Ids :
    \A i \in 1..Len(sent[k]) :
      (sent[k][i].type = "Done" /\ sent[k][i].by = "eof") => sent[k][i].res # "Ok"

\* ------------------------------------------------------------------------
\* C8: after a command ended with Done(Err(Stderr)), the actor is neither
\* terminated nor stalled by it, and every later command is answered with
\* events built from its own output only.
\* ------------------------------------------------------------------------
C8_ProtocolErrorLeavesLaterCommandsIntact ==
  \A k \in Ids :
    (HasDone(k) /\ Last(sent[k]).res = "Stderr" /\ PipesIntact)
      => /\ cur # k
         /\ decided[k] = "done"
         /\ \A j \in Ids :
              j > k => \A i \in 1..Len(sent[j]) : sent[j][i].from \subseteq {j}

\* ------------------------------------------------------------------------
\* C9: once the actor has terminated it stays terminated and every send()
\* fails with ChannelClosed, accepting nothing and creating no receiver;
\* while the actor is alive every send() that returns has queued its command
\* and handed out an open receiver.
\* ------------------------------------------------------------------------
C9_SendFailsExactlyAfterTermination ==
  [][ /\ actor = "dead" => /\ actor' = "dead"
                           /\ cmds' = cmds /\ queue' = queue
                           /\ Len(rxOpen') = Len(rxOpen)
      /\ Len(sendResults') > Len(sendResults) =>
           IF actor = "dead"
           THEN Last(sendResults') = "ChannelClosed"
           ELSE /\ Last(sendResults') = "Ok"
                /\ Len(cmds') = Len(cmds) + 1
                /\ queue' = Append(queue, Len(cmds'))
                /\ rxOpen' = Append(rxOpen, TRUE)
                /\ sent' = Append(sent, <<>>) ]_vars

\* a send() was accepted and a later one failed with ChannelClosed
C9_Witness ==
  \E i, j \in 1..Len(sendResults) :
    i < j /\ sendResults[i] = "Ok" /\ sendResults[j] = "ChannelClosed"

\* ------------------------------------------------------------------------
\* C10: chunk independence.  For a well-formed text, however it is cut
\* into chunks and whenever drain_output() is called, no take() fails and
\* the drained values followed by the values of finish() are the values
\* that one take() of the whole text followed by finish() gives.
\* ------------------------------------------------------------------------
C10_ChunkIndependence ==
  presult.kind # "none" =>
    LET whole == parse_sexpr(pinput) IN
      whole.kind = "Ok" =>
        /\ presult.kind = "Ok"
        /\ drained \o presult.values = whole.values

\* a well-formed text was parsed in chunks that ended inside a token,
\* inside a string literal and behind a backslash, and part of its values
\* was drained before finish()
C10_Witness ==
  /\ presult.kind = "Ok"
  /\ parse_sexpr(pinput).kind = "Ok"
  /\ pcuts = {"token", "string", "escape"}
  /\ drained # <<>>
  /\ presult.values # <<>>

\* ------------------------------------------------------------------------
\* Reading a text by its characters alone: the nesting depth outside string
\* literals and the values completed so far.  kids are the kinds of the
\* completed direct children of the outer list, stray counts the values
\* completed outside any list.
\* ------------------------------------------------------------------------
ScanStart ==
  [depth |-> 0, mode |-> "normal", tok |-> FALSE, kids |-> <<>>, stray |-> 0,
   closed |-> FALSE]

Completed(sc, kind) ==
  IF sc.depth = 1 THEN [sc EXCEPT !.kids = Append(@, kind)]
  ELSE IF sc.depth = 0 THEN [sc EXCEPT !.stray = @ + 1]
  ELSE sc

EndToken(sc) ==
  IF sc.tok THEN Completed([sc EXCEPT !.tok = FALSE], "Token") ELSE sc

ScanChar(sc, ch) ==
  CASE sc.mode = "escape" -> [sc EXCEPT !.mode = "string"]
    [] sc.mode = "string" ->
         IF ch = BS THEN [sc EXCEPT !.mode = "escape"]
         ELSE IF ch = Q THEN Completed([sc EXCEPT !.mode = "normal"], "String")
         ELSE sc
    [] OTHER ->
         CASE ch = Q -> [EndToken(sc) EXCEPT !.mode = "string"]
           [] ch = "(" -> [EndToken(sc) EXCEPT !.depth = @ + 1]
           [] ch = ")" ->
                LET up == [EndToken(sc) EXCEPT !.depth = @ - 1] IN
                  IF up.depth = 0 THEN [up EXCEPT !.closed = TRUE]
                  ELSE Completed(up, "List")
           [] IsWhitespace(ch) -> EndToken(sc)
           [] OTHER -> [sc EXCEPT !.tok = TRUE]

RECURSIVE ScanFrom(_, _)
ScanFrom(sc, text) ==
  IF text = <<>> THEN sc ELSE ScanFrom(ScanChar(sc, Head(text)), Tail(text))

Scan(text) == ScanFrom(ScanStart, text)

\* the part of the text the parser has taken
Taken == SubSeq(pinput, 1, ppos)

KindsOf(values) ==
  [i \in 1..Len(values) |->
     IF values[i].kind \in {"Atom", "I64"} THEN "Token" ELSE values[i].kind]

\* ------------------------------------------------------------------------
\* C11: streaming emission.  As long as no take() has failed and no value
\* stands outside the outer list, the values drained so far followed by
\* those the next drain_output() returns are exactly the direct children
\* of the outer list completed by the characters taken, one value per
\* child in order: a child is there as soon as its last character was
\* taken, with the outer list still open; nothing nested deeper and no
\* outer list is among them.
\* ------------------------------------------------------------------------
C11_StreamingEmission ==
  (presult.kind # "TakeErr" /\ Scan(Taken).stray = 0) =>
    KindsOf(drained \o drain_output(parser)) = Scan(Taken).kids

\* the outer list is open, and a nested list that has a value of its own
\* has been drained as one child
C11_Witness ==
  /\ presult.kind = "none"
  /\ Scan(Taken).stray = 0
  /\ Scan(Taken).depth = 1
  /\ Len(parser.stack) = 1
  /\ \E i \in 1..Len(drained) :
        drained[i].kind = "List" /\ drained[i].items # <<>>

\* ------------------------------------------------------------------------
\* Characters of the text by their place
\* ------------------------------------------------------------------------
Before(i) == Scan(SubSeq(pinput, 1, i - 1))

Delimiters == {"(", ")", Q, " ", NL, "\t"}

\* the token that ends right before place i: the characters since the
\* last delimiter
RECURSIVE TokenBefore(_)
TokenBefore(i) ==
  IF i = 1 \/ pinput[i - 1] \in Delimiters THEN <<>>
  ELSE Append(TokenBefore(i - 1), pinput[i - 1])

\* an unfinished token that is not an integer although it starts like one
\* stands right before place i
BadTokenBefore(i) ==
  LET tok == TokenBefore(i) IN
    /\ Before(i).mode = "normal"
    /\ tok # <<>>
    /\ Head(tok) \in Digits \cup {"-"}
    /\ ~ParseI64(tok).ok

\* take() has got as far as place i: i was handed over and no earlier
\* character made take() fail
GotTo(i) ==
  /\ ppos >= i
  /\ presult.kind = "TakeErr" => presult.at >= i

FailedAt(i, e) ==
  presult.kind = "TakeErr" /\ presult.at = i /\ presult.err = e

\* place i holds a '(' outside a string after the outer list was closed
SecondFormAt(i) ==
  pinput[i] = "(" /\ Before(i).mode = "normal" /\ Before(i).closed

\* ------------------------------------------------------------------------
\* C12 as stated: every '(' outside a string behind the closed outer list
\* makes take() fail with MultipleTopLevelForms at that character, in
\* whatever chunk it arrives; no other character gives that error.
\* ------------------------------------------------------------------------
C12_SecondFormIsRejected ==
  /\ \A i \in 1..Len(pinput) :
        (SecondFormAt(i) /\ GotTo(i)) => FailedAt(i, "MultipleTopLevelForms")
  /\ (presult.kind = "TakeErr" /\ presult.err = "MultipleTopLevelForms") =>
        SecondFormAt(presult.at)

\* C12, amended: the token that the '(' ends is flushed first, so that an
\* invalid integer right before the '(' is reported, as InvalidInteger, in
\* place of the second form; in every other case the error is
\* MultipleTopLevelForms, and no other character gives that error.
C12_SecondFormIsRejectedAfterFlush ==
  /\ \A i \in 1..Len(pinput) :
        (SecondFormAt(i) /\ GotTo(i)) =>
          FailedAt(i, IF BadTokenBefore(i) THEN "InvalidInteger"
                      ELSE "MultipleTopLevelForms")
  /\ (presult.kind = "TakeErr" /\ presult.err = "MultipleTopLevelForms") =>
        SecondFormAt(presult.at)

\* a second form, right behind the paren that closed the outer list, was
\* rejected with more of its chunk behind it
C12_Witness ==
  /\ presult.kind = "TakeErr"
  /\ presult.err = "MultipleTopLevelForms"
  /\ presult.at < ppos
  /\ pinput[presult.at - 1] = ")"

\* place i holds a ')' outside a string
CloseAt(i) == pinput[i] = ")" /\ Before(i).mode = "normal"

\* ------------------------------------------------------------------------
\* C13 as stated: a ')' outside a string with no list open makes take()
\* fail at once with UnmatchedCloseParen, and a ')' with a list open does
\* not make take() fail.
\* ------------------------------------------------------------------------
C13_CloseParenFailsIffNoListOpen ==
  \A i \in 1..Len(pinput) :
    (CloseAt(i) /\ GotTo(i)) =>
      IF Before(i).depth = 0
      THEN FailedAt(i, "UnmatchedCloseParen")
      ELSE ~(presult.kind = "TakeErr" /\ presult.at = i)

\* C13, amended: the token that the ')' ends is flushed first; unless that
\* token is an invalid integer, which makes take() fail with
\* InvalidInteger, a ')' with no list open fails at once with
\* UnmatchedCloseParen and a ')' with a list open does not fail.
\* UnmatchedCloseParen is given for no other character.
C13_CloseParenAfterFlush ==
  /\ \A i \in 1..Len(pinput) :
        (CloseAt(i) /\ GotTo(i)) =>
          IF BadTokenBefore(i) THEN FailedAt(i, "InvalidInteger")
          ELSE IF Before(i).depth = 0
               THEN FailedAt(i, "UnmatchedCloseParen")
               ELSE ~(presult.kind = "TakeErr" /\ presult.at = i)
  /\ (presult.kind = "TakeErr" /\ presult.err = "UnmatchedCloseParen") =>
        (CloseAt(presult.at) /\ Before(presult.at).depth = 0)

\* a ')' behind the closed outer list was rejected, with more of its chunk
\* behind it, after the ')' that closed the outer list was taken
C13_Witness ==
  /\ presult.kind = "TakeErr"
  /\ presult.err = "UnmatchedCloseParen"
  /\ presult.at < ppos
  /\ Before(presult.at).closed

\* finish() has been called
FinishCalled == presult.kind \in {"Ok", "FinishErr"}

\* the whole text read by its characters, a trailing token ended
AtEnd == EndToken(Scan(pinput))

\* finish() returned the values completed by the text that were not
\* drained: those still in the output, then the trailing atom if any
ReturnsUndrained ==
  /\ presult.kind = "Ok"
  /\ Len(drained) + Len(presult.values) = Len(AtEnd.kids) + AtEnd.stray
  /\ SubSeq(presult.values, 1, Len(parser.output)) = parser.output
  /\ Len(presult.values) - Len(parser.output) =
       (IF TokenBefore(Len(pinput) + 1) # <<>> THEN 1 ELSE 0)

FinishChecks ==
  IF AtEnd.mode # "normal"
  THEN presult = FinishFailed("UnterminatedString", 0)
  ELSE IF AtEnd.depth > 0
       THEN presult = FinishFailed("UnclosedParens", AtEnd.depth)
       ELSE ReturnsUndrained

\* ------------------------------------------------------------------------
\* C14 as stated: finish() fails with UnterminatedString if the text ended
\* inside a string literal, whatever lists are open; else with
\* UnclosedParens(n), n the number of open lists, if n > 0; else it
\* returns the values not yet drained, the trailing atom among them.
\* ------------------------------------------------------------------------
C14_FinishReportsTheEnd == FinishCalled => FinishChecks

\* C14, amended: flushing the trailing atom fails with InvalidInteger when
\* the atom starts with a digit or '-' and is not a valid integer, and
\* that error comes before the others; in every other case finish() does
\* as stated.
C14_FinishFlushesThenReportsTheEnd ==
  FinishCalled =>
    IF BadTokenBefore(Len(pinput) + 1)
    THEN presult = FinishFailed("InvalidInteger", 0)
    ELSE FinishChecks

\* finish() found the text ended inside a string literal with a list
\* open, after a value had been drained
C14_Witness ==
  /\ presult = FinishFailed("UnterminatedString", 0)
  /\ AtEnd.depth > 0
  /\ drained # <<>>

\* ------------------------------------------------------------------------
\* One token in an outer list
\* ------------------------------------------------------------------------
TheToken == SubSeq(pinput, 2, Len(pinput) - 1)

Emitted == drained \o drain_output(parser)

\* ------------------------------------------------------------------------
\* C15: a token that starts with a digit or '-' and is not a decimal
\* number of the i64 range (a letter behind the digits, a lone '-', a
\* magnitude past the range) makes the parser fail with InvalidInteger at
\* the character that ends the token, and no value is ever emitted for
\* it, neither an Atom nor some integer; a token that is such a number is
\* emitted as one I64.
\* ------------------------------------------------------------------------
C15_InvalidIntegerIsAnError ==
  /\ TheToken \in InvalidTokens =>
        /\ Emitted = <<>>
        /\ GotTo(Len(pinput)) => FailedAt(Len(pinput), "InvalidInteger")
  /\ TheToken \in ValidTokens =>
        /\ presult.kind # "TakeErr"
        /\ GotTo(Len(pinput)) => (Len(Emitted) = 1 /\ Emitted[1].kind = "I64")

\* the token 9223372036854775808, one past the largest i64, was rejected
C15_Witness ==
  /\ TheToken = I64MinDigits
  /\ FailedAt(Len(pinput), "InvalidInteger")

\* ------------------------------------------------------------------------
\* Decoding: what was called on what
\* ------------------------------------------------------------------------
Called(op) == decoded # NotDecoded /\ decoded.op = op

\* the source's value[i] of the list that was decoded
ValueAt(i) == sexpr_value[i + 1]

\* the kinds the layout of a transaction asks for, by index
TransactionKinds == [i \in {0, 1, 2, 4} |->
                       IF i = 1 THEN "I64" ELSE "String"]

WrongKinds ==
  { i \in DOMAIN TransactionKinds : ValueAt(i).kind # TransactionKinds[i] }

Lowest(set) == CHOOSE i \in set : \A j \in set : i <= j

\* ------------------------------------------------------------------------
\* C16: Transaction::from_sexpr reports a mismatch by its position.  A
\* list of fewer than 5 elements gives UnexpectedLength(5, len); else the
\* lowest index among 0, 1, 2, 4 whose element is of the wrong kind gives
\* UnexpectedType with that index and that element, element 3 being
\* accepted whatever it is; else the first element from index 5 on that
\* is no list, the postings before it decoding, gives UnexpectedType with
\* its index and itself.
\* ------------------------------------------------------------------------
C16_MismatchIsReportedByPosition ==
  Called("Transaction") =>
    IF Len(sexpr_value) < 5
    THEN decoded.res = UnexpectedLength(5, Len(sexpr_value))
    ELSE IF WrongKinds # {}
    THEN decoded.res = UnexpectedType(Lowest(WrongKinds), ValueAt(Lowest(WrongKinds)))
    ELSE \A j \in 5..(Len(sexpr_value) - 1) :
           (/\ ValueAt(j).kind # "List"
            /\ \A l \in 5..(j - 1) :
                  /\ ValueAt(l).kind = "List"
                  /\ PostingFromSexpr(ValueAt(l).items).kind = "Ok")
             => decoded.res = UnexpectedType(j, ValueAt(j))

\* ------------------------------------------------------------------------
\* C17: a transaction list that is well-formed in every other element
\* decodes to a Transaction of that date whether element 2 is the ISO
\* date text or the integer of epoch seconds (2025-12-13 is 1765584000),
\* which is what the `seconds` date mode of reload_state prints.
\* ------------------------------------------------------------------------
BothDateModes == { String(Chars("iso")), I64(Chars("epoch")) }

C17_BothDateModesDecode ==
  (/\ Called("Transaction")
   /\ Len(sexpr_value) >= 5
   /\ WrongKinds \subseteq {2}
   /\ ValueAt(2) \in BothDateModes
   /\ \A l \in 5..(Len(sexpr_value) - 1) :
         /\ ValueAt(l).kind = "List"
         /\ PostingFromSexpr(ValueAt(l).items).kind = "Ok")
    => /\ decoded.res.kind = "Ok"
       /\ decoded.res.v.time = [year |-> 2025, month |-> 12, day |-> 13]

\* ------------------------------------------------------------------------
\* Postings
\* ------------------------------------------------------------------------
\* the places of a text where a segment starts: a character other than
\* the colon, first of the text or right after a colon
SegmentStarts(text) ==
  { i \in 1..Len(text) : text[i] # ":" /\ (i = 1 \/ text[i - 1] = ":") }

\* the segment that starts at i goes on to the last character before the
\* next colon
SegmentEnd(text, i) ==
  CHOOSE j \in i..Len(text) :
    /\ \A k \in i..j : text[k] # ":"
    /\ (j = Len(text) \/ text[j + 1] = ":")

\* segs is the sequence of the non-empty colon-separated segments of text
IsSegmentsOf(segs, text) ==
  /\ Len(segs) = Cardinality(SegmentStarts(text))
  /\ \A i \in SegmentStarts(text) :
        segs[Cardinality({ k \in SegmentStarts(text) : k <= i })]
          = SubSeq(text, i, SegmentEnd(text, i))

\* the posting the layout describes, the amount text having parsed
IsThePosting(res, amount) ==
  /\ res.kind = "Ok"
  /\ IsSegmentsOf(res.v.account, ValueAt(1).text)
  /\ res.v.amount = amount.v
  /\ Len(sexpr_value) = 4 => res.v.note = None
  /\ Len(sexpr_value) = 5 => res.v.note = Some(ValueAt(4).text)

BadNote == Len(sexpr_value) = 5 /\ ValueAt(4).kind # "String"

\* ------------------------------------------------------------------------
\* C18, as the specification has it: Posting::from_sexpr gives
\* UnexpectedLength(4, len) below 4 elements, UnexpectedType with the
\* index for a non-string at 1, at 2 or, in a list of 5, at 4, and else,
\* the amount text parsing, the posting of the segments of [1], the
\* amount of [2] and the note of [4].
\* ------------------------------------------------------------------------
C18_PostingLayout ==
  Called("Posting") =>
    IF Len(sexpr_value) < 4
    THEN decoded.res = UnexpectedLength(4, Len(sexpr_value))
    ELSE IF ValueAt(1).kind # "String"
    THEN decoded.res = UnexpectedType(1, ValueAt(1))
    ELSE IF ValueAt(2).kind # "String"
    THEN decoded.res = UnexpectedType(2, ValueAt(2))
    ELSE IF BadNote
    THEN decoded.res = UnexpectedType(4, ValueAt(4))
    ELSE AmountParse(ValueAt(2).text).kind = "Ok"
           => IsThePosting(decoded.res, AmountParse(ValueAt(2).text))

\* what Posting::from_sexpr gives for strings at 1 and 2, Amount::parse
\* having given amount for the text at 2
PostingLayoutWith(amount) ==
  IF amount.kind = "Panic" THEN decoded.res = DecodePanicked
  ELSE IF amount.kind = "Err" THEN decoded.res = InvalidAmount(amount.err)
  ELSE IF BadNote THEN decoded.res = UnexpectedType(4, ValueAt(4))
  ELSE IsThePosting(decoded.res, amount)

\* ------------------------------------------------------------------------
\* C18, amended: the amount text is parsed before element 4 is looked
\* at.  Below 4 elements the result is UnexpectedLength(4, len); a
\* non-string at 1, else at 2, gives UnexpectedType with that index; an
\* amount text that does not parse gives InvalidAmount with its error,
\* whatever element 4 is (and one that makes Amount::parse abort aborts
\* the decoding); only then does a non-string at 4 in a list of 5 give
\* UnexpectedType(4); else the posting of the layout.
\* ------------------------------------------------------------------------
C18_PostingLayoutAmountBeforeNote ==
  Called("Posting") =>
    IF Len(sexpr_value) < 4
    THEN decoded.res = UnexpectedLength(4, Len(sexpr_value))
    ELSE IF ValueAt(1).kind # "String"
    THEN decoded.res = UnexpectedType(1, ValueAt(1))
    ELSE IF ValueAt(2).kind # "String"
    THEN decoded.res = UnexpectedType(2, ValueAt(2))
    ELSE PostingLayoutWith(AmountParse(ValueAt(2).text))

\* a list of 5 whose account text has empty segments and whose note is a
\* string has been decoded to a posting
C18_Witness ==
  /\ Called("Posting")
  /\ Len(sexpr_value) = 5
  /\ ValueAt(1) = String(Chars("gaps"))
  /\ decoded.res.kind = "Ok"
  /\ decoded.res.v.account = << <<"a">>, <<"b">> >>
  /\ decoded.res.v.note = Some(<<" ", "n">>)

\* ------------------------------------------------------------------------
\* Amount texts of the grammar, each part with what it stands for
\* ------------------------------------------------------------------------
FormDecimals ==
  { [text |-> Chars("dec"),
     value |-> D128(TRUE, <<"1", "0", "2", "0", "4", "8">>, 2, FALSE)],
    [text |-> Chars("int"), value |-> D128(FALSE, <<"7">>, 0, FALSE)] }

FormCommodities ==
  { [text |-> <<>>, code |-> <<>>],
    [text |-> <<" ", "G">>, code |-> <<"G">>],
    [text |-> <<" ", Q, "G", " ", "H", Q>>, code |-> <<"G", " ", "H">>] }

FormPrices ==
  { [text |-> <<>>, price |-> None],
    [text |-> <<" ", "{">> \o Chars("dec") \o <<" ", "S", "}">>,
     price |-> Some([value |-> D128(TRUE, <<"1", "0", "2", "0", "4", "8">>,
                                    2, FALSE),
                     commodity |-> <<"S">>])] }

FormDates ==
  { [text |-> <<>>, date |-> None],
    [text |-> <<" ", "[">> \o Chars("ymd") \o <<"]">>,
     date |-> Some([year |-> 2025, month |-> 12, day |-> 3])] }

\* ------------------------------------------------------------------------
\* C19: Amount::parse on a text of the form
\* `<decimal> [<commodity>] [{<decimal> <commodity>}] [[YYYY/MM/DD]]`
\* returns the decimal without its commas as the value, the commodity
\* code (empty when there is none) as the commodity, the braced pair as
\* the price exactly when there is a price clause and the bracketed date
\* exactly when there is a date clause; nothing of the clauses gets into
\* the commodity.
\* ------------------------------------------------------------------------
C19_AmountGrammar ==
  Called("Amount") =>
    \A d \in FormDecimals, c \in FormCommodities,
       pr \in FormPrices, dt \in FormDates :
      amount_str = d.text \o c.text \o pr.text \o dt.text
        => decoded.res = AmountOk([value |-> [value |-> d.value,
                                              commodity |-> c.code],
                                   price |-> pr.price,
                                   date |-> dt.date])

\* a text with commas in the decimal, a commodity, a price clause and a
\* date clause has been parsed to an amount with a price and a date
C19_Witness ==
  /\ Called("Amount")
  /\ amount_str = Chars("dec") \o <<" ", "G", " ", "{">> \o Chars("dec")
                     \o <<" ", "S", "}", " ", "[">> \o Chars("ymd") \o <<"]">>
  /\ decoded.res.kind = "Ok"
  /\ decoded.res.v.value.commodity = <<"G">>
  /\ decoded.res.v.price.some
  /\ decoded.res.v.date.some

\* ------------------------------------------------------------------------
\* C20: Amount::parse, and with it the decoding of postings and
\* transactions, returns Ok or Err for every text and never aborts,
\* texts with a closing delimiter before its opening one, with an
\* unmatched delimiter or with an empty clause included.
\* ------------------------------------------------------------------------
C20_DecodingNeverAborts ==
  decoded # NotDecoded => decoded.res.kind \in {"Ok", "Err"}

\* ------------------------------------------------------------------------
\* C21: the decoded decimal has exactly the digits and the scale of its
\* text, commas removed, however many digits the text has: the value of
\* an amount that is a decimal of k blocks of ten digits behind the
\* point, and the price of an amount whose price clause holds it, are
\* that sign, those digits and that scale, nothing rounded off.
\* ------------------------------------------------------------------------
C21_DigitsArePreserved ==
  Called("Amount") =>
    \A sign \in Signs, whole \in Wholes, k \in 0..MaxBlocks,
       c \in LongCommodities :
      LET text == LongDecimal(sign, whole, k) \o c
          exact == D128(sign = <<"-">>, whole.digits \o Blocks(k), 10 * k,
                        FALSE)
      IN /\ amount_str = text
              => /\ decoded.res.kind = "Ok"
                 /\ decoded.res.v.value.value = exact
         /\ amount_str = AsPrice(text)
              => /\ decoded.res.kind = "Ok"
                 /\ decoded.res.v.price = Some([value |-> exact,
                                                commodity |-> IF c = <<>> THEN <<>>
                                                              ELSE Tail(c)])

\* ------------------------------------------------------------------------
\* Vocabulary for the properties of the account tree.
\* ------------------------------------------------------------------------
\* the commodities of the calls
TreeCommodities == { m.commodity : m \in Amounts }

\* what a balance holds of a commodity, zero without an entry
Total(balance, c) == IF c \in DOMAIN balance THEN balance[c] ELSE 0

\* the postings of commodity c to the account or to an account below it
PostingsBelow(account, c) ==
  { e \in BagToSet(posted) :
      /\ e[2].commodity = c
      /\ account \in PrefixesOf(e[1]) }

\* the sum of the values of a set of postings, each as often as posted
RECURSIVE SumOf(_)
SumOf(es) ==
  IF es = {} THEN 0
  ELSE LET e == CHOOSE x \in es : TRUE
       IN e[2].value * posted[e] + SumOf(es \ {e})

\* C22: as long as every amount was posted to an account that had a node,
\* the balance of every node but the root holds, per commodity, the sum
\* of the amounts posted to the node's account and to the accounts below
C22_SubtreeRollup ==
  ~strayed =>
    \A i \in 1..Len(Below(tree)) : \A c \in TreeCommodities :
      Total(Below(tree)[i].balance, c)
        = SumOf(PostingsBelow(Below(tree)[i].account, c))

\* amounts went to two accounts of different depth below assets, all to
\* accounts that had a node
C22_Witness ==
  /\ ~strayed
  /\ \E m \in Amounts : BagIn(<<<<"assets", "bank", "checking">>, m>>, posted)
  /\ \E m \in Amounts : BagIn(<<<<"assets", "cash">>, m>>, posted)

\* the balance entries of the root and of all nodes below it, in the
\* order of the tree, for one commodity
Entries(node, c) ==
  <<Entry(node.balance, c)>>
    \o [i \in 1..Len(Below(node)) |-> Entry(Below(node)[i].balance, c)]

\* the call that was just made was add_amount_to_account(account, amount)
Posting(account, amount) ==
  posted' = posted (+) SetToBag({<<account, amount>>})

\* C23: add_amount_to_account with an amount of commodity c leaves, at
\* every node, the balance entry of every other commodity as it was
C23_CommoditiesAreIndependent ==
  [][\A account \in Accounts, amount \in Amounts :
       Posting(account, amount) =>
         \A c \in TreeCommodities \ {amount.commodity} :
           Entries(tree', c) = Entries(tree, c)]_vars

\* assets, the parent of the siblings bank and cash, holds both
\* commodities after USD went to one side and EUR to the other
C23_Witness ==
  /\ BagIn(<<<<"assets", "bank", "checking">>,
             [value |-> 1, commodity |-> "USD"]>>, posted)
  /\ BagIn(<<<<"assets", "cash">>,
             [value |-> 2, commodity |-> "EUR"]>>, posted)
  /\ \E i \in 1..Len(Below(tree)) :
       /\ Below(tree)[i].account = <<"assets">>
       /\ Below(tree)[i].balance = [c \in {"USD", "EUR"} |->
                                     IF c = "USD" THEN 1 ELSE 2]

\* the accounts that add_account was to give a node: the non-empty
\* prefixes of the accounts inserted
InsertedPrefixes == UNION { PrefixesOf(account) : account \in inserted }

\* how many nodes of the tree have the account
NodeCount(account) ==
  Cardinality({ i \in 1..Len(Below(tree)) : Below(tree)[i].account = account })

\* C24: the nodes of the tree are the non-empty prefixes of the accounts
\* inserted, one node each, whatever the order of the calls; add_account
\* of an inserted account or of any of its prefixes changes nothing
C24_AddAccountIsIdempotent ==
  /\ Nodes(tree) = InsertedPrefixes
  /\ \A account \in InsertedPrefixes : NodeCount(account) = 1
  /\ \A account \in InsertedPrefixes \cup {<<>>} :
       add_account(tree, account) = tree

\* a child, its parent and an account of a sibling branch were inserted,
\* and the nodes carry balances
C24_Witness ==
  /\ inserted = {<<"assets", "bank", "checking">>, <<"assets", "cash">>,
                 <<"assets", "bank">>}
  /\ tree.children[1].children[1].account = <<"assets", "bank">>
  /\ tree.children[1].children[1].children # <<>>
  /\ tree.children[1].balance # BalanceNew

\* what the node of an account holds of a commodity, zero without a node
NodeTotal(node, account, c) ==
  IF account \in Nodes(node)
  THEN Total(Below(node)[CHOOSE i \in 1..Len(Below(node)) :
                           Below(node)[i].account = account].balance, c)
  ELSE 0

\* C25: add_amount_to_account(path, amount) adds the amount, under its
\* commodity, to the balance of the node of every non-empty prefix of the
\* path, whether or not these nodes were inserted before
C25_AmountReachesEveryNodeOnPath ==
  [][\A account \in Accounts \ {<<>>}, amount \in Amounts :
       Posting(account, amount) =>
         \A prefix \in PrefixesOf(account) :
           /\ prefix \in Nodes(tree')
           /\ NodeTotal(tree', prefix, amount.commodity)
                = NodeTotal(tree, prefix, amount.commodity) + amount.value]_vars

\* the call that was just made was clear(): the only one that leaves
\* nothing inserted and nothing posted
Clearing == inserted' = {} /\ posted' = EmptyBag

\* C26: clear() leaves exactly a TreeNode::new(), so the tree always
\* equals a fresh tree given the calls made since the last clear(); no
\* other call removes a node
C26_ClearGivesAFreshTree ==
  [][/\ Clearing => tree' = TreeNodeNew
     /\ tree' = twin'
     /\ ~Clearing =>
          /\ Nodes(tree) \subseteq Nodes(tree')
          /\ Len(Below(tree)) <= Len(Below(tree'))]_vars

\* after a clear() the tree was filled again: it has nodes on two levels
\* and a balance
C26_Witness ==
  /\ cleared
  /\ Len(Below(tree)) > 1
  /\ posted # EmptyBag
  /\ ~strayed

\* ------------------------------------------------------------------------
\* Vocabulary for the properties of LedgerState and RegisterView.
\* ------------------------------------------------------------------------
\* the tasks of run_command that have not ended
LiveViewTasks ==
  { i \in 1..Len(view_tasks) : view_tasks[i].at # "ended" }

\* one sequence is the other with items added at the end
Extends(longer, shorter) ==
  /\ Len(shorter) <= Len(longer)
  /\ SubSeq(longer, 1, Len(shorter)) = shorter

\* the step is a call of run_command
RunCommandCalled == clicks' = clicks + 1

\* the step is the call of reload_state
ReloadCalled == state_task.at = "none" /\ state_task'.at = "starting"

\* C27: the transaction list is emptied only by a run_command that finds
\* busy false and the account set only by reload_state, and otherwise both
\* only grow; a run_command that finds busy true changes nothing and
\* spawns no task, so that at most one task is alive; busy is true exactly
\* while a task is alive, hence false after the stream ended, gave an
\* error or could not be opened
C27_OneLoadAtATime ==
  [][/\ \/ Extends(transactions', transactions)
        \/ RunCommandCalled /\ ~busy /\ transactions' = <<>>
     /\ \/ accounts \subseteq accounts'
        \/ ReloadCalled /\ accounts' = {}
     /\ (RunCommandCalled /\ busy) =>
          UNCHANGED <<busy, transactions, view_tasks>>
     /\ Cardinality(LiveViewTasks') <= 1
     /\ busy' = (LiveViewTasks' # {})]_vars

\* run_command was called while a load was in flight, and that load then
\* ended with an error after it had given transactions
C27_Witness ==
  /\ clicks = 2
  /\ Len(view_tasks) = 1
  /\ view_tasks[1].outcome = "error"
  /\ ~busy
  /\ transactions # <<>>
  /\ accounts # {}

\* the positions in the events of the events of one type
EventsOf(type) == { i \in 1..Len(events) : events[i].type = type }

\* the transactions of the NewTransaction events, in their order
RECURSIVE Announced(_)
Announced(evs) ==
  IF evs = <<>> THEN <<>>
  ELSE IF Head(evs).type = "NewTransaction"
  THEN <<Head(evs).transaction>> \o Announced(Tail(evs))
  ELSE Announced(Tail(evs))

\* the position of the NewTransaction event that follows position i
NextTransaction(i) ==
  CHOOSE j \in EventsOf("NewTransaction") :
    /\ j > i
    /\ \A k \in EventsOf("NewTransaction") : k > i => j <= k

\* C28: once reload_state was called the events start with the one Reset;
\* the NewTransaction events are the decoded transactions in the order of
\* the stream; each account is announced by at most one NewAccount; every
\* account a transaction posts to was announced before the
\* transaction's NewTransaction; and every NewAccount belongs to the next
\* NewTransaction: it names an account that transaction posts to
C28_NotificationOrder ==
  state_task.at # "none" =>
    /\ EventsOf("Reset") = {1}
    /\ Announced(events) = delivered
    /\ \A i, j \in EventsOf("NewAccount") :
         events[i].account = events[j].account => i = j
    /\ \A j \in EventsOf("NewTransaction") :
         \A account \in PostingAccounts(events[j].transaction) :
           \E i \in EventsOf("NewAccount") :
             i < j /\ events[i].account = account
    /\ \A i \in EventsOf("NewAccount") :
         /\ \E j \in EventsOf("NewTransaction") : j > i
         /\ events[i].account
              \in PostingAccounts(events[NextTransaction(i)].transaction)

\* two transactions were decoded, the second posting to an account of
\* the first and, twice, to a new one
C28_Witness ==
  /\ delivered = <<<<"a", "b">>, <<"b", "c", "b">>>>
  /\ Len(events) = 6

\* how a load ends when it fails
Failures == {"error", "unsent"}

\* LedgerState's failed load is signalled: there is one Error event, it is
\* the last event, and the NewTransaction events before it are the
\* transactions the stream gave
StateSignalsFailure ==
  (state_task.at = "ended" /\ state_task.outcome \in Failures) =>
    /\ EventsOf("Error") = {Len(events)}
    /\ Announced(events) = delivered

\* RegisterView's failed loads are signalled, were it only on the
\* process's stderr: the view has no event and no field for an error
ViewSignalsFailure ==
  \A i \in 1..Len(view_tasks) :
    (view_tasks[i].at = "ended" /\ view_tasks[i].outcome \in Failures) =>
      view_tasks[i].printed = 1

\* C29: a load that failed after k >= 0 transactions has given exactly
\* one error signal, after the k transactions and as the last thing, with
\* both consumers of the transaction stream
C29_FailedLoadIsSignalled == StateSignalsFailure /\ ViewSignalsFailure

\* ------------------------------------------------------------------------
\* Vocabulary for the properties of read_either.
\* ------------------------------------------------------------------------
\* the lines of the Stdout(Some(line)) results, in order: what run_actor
\* sends as Line events
RECURSIVE LinesRead(_)
LinesRead(results) ==
  IF results = <<>> THEN <<>>
  ELSE IF Head(results).pipe = "Stdout" /\ Head(results).line.some
  THEN <<Head(results).line.v>> \o LinesRead(Tail(results))
  ELSE LinesRead(Tail(results))

\* the lines the subprocess prints before the sentinel line, as written:
\* each with its newline
LinesWritten == [i \in 1..Len(stdout_lines) |-> Append(stdout_lines[i], NL)]

\* C30: the lines read from stdout are the lines written before the
\* sentinel line, whole and in order, however the bytes of the two pipes
\* become readable; the sentinel line is recognized once it was read, and
\* then no line is missing
C30_LinesAreWhole ==
  /\ Extends(LinesWritten, LinesRead(read_results))
  /\ (stdout_todo = <<>> /\ stdout_reader = <<>>) => MarkerRead
  /\ MarkerRead => LinesRead(read_results) = LinesWritten

\* ------------------------------------------------------------------------
\* Properties of the actor across commands and of its channels.
\* ------------------------------------------------------------------------
\* the events that carry output of the subprocess: a Line, and a Done with
\* the text of stderr
CarriesOutput(e) == e.type = "Line" \/ e.res = "Stderr"

\* C31: every Line event and every stderr text delivered for a command was
\* printed by the subprocess in response to that command; output left
\* unread when an earlier command was decided is never reported for a
\* later one
C31_OutputIsOfItsOwnCommand ==
  \A k \in Ids : \A i \in 1..Len(sent[k]) :
    CarriesOutput(sent[k][i]) => sent[k][i].from \subseteq {k}

\* the terminal event of k was sent because stderr reached end-of-file
EndedByStderrEof(k) == HasDone(k) /\ Last(sent[k]).by = "stderr_eof"

DoneIoView == [type |-> "Done", text |-> <<>>, res |-> "Io"]

IsLine(ev) == ev.type = "Line"

IsOkItem(it) == it.item = "Ok"

\* the numbers of the Line events of a sequence of events, and of the lines
\* of a sequence of items
LineNumbers(evs) ==
  LET ls == SelectSeq(evs, IsLine) IN [i \in 1..Len(ls) |-> ls[i].n]

ItemNumbers(its) ==
  LET ls == SelectSeq(its, IsOkItem) IN [i \in 1..Len(ls) |-> ls[i].n]

\* run_actor is suspended in the send of a Line event of command k
WorkerSuspended(k) ==
  /\ worker = "serving" /\ w_cur = k /\ ~rx_dropped[k]
  /\ Len(produced[k]) < LineBudget(k)
  /\ Len(resp[k]) = ResponseCap

\* C33: at most 16 commands are queued between the submitters and
\* run_actor, at most 64 events are buffered in one response channel, and
\* the lines a live consumer has been given, followed by the lines still
\* buffered, are the lines run_actor sent, in the order sent: none dropped,
\* none reordered
C33_BackpressureWithoutLoss ==
  /\ Len(cmd_chan) <= CmdQueueCap
  /\ \A k \in Submits : Len(resp[k]) <= ResponseCap
  /\ \A k \in Streams :
       ~rx_dropped[k] =>
         ItemNumbers(yielded[k]) \o LineNumbers(resp[k]) =
           LineNumbers(produced[k])

\* run_actor is suspended on a full response channel for the second time
\* at least, while a submitter is suspended that found the command
\* channel full
C33_Witness ==
  \E k \in Streams, id \in Submits :
    /\ WorkerSuspended(k)
    /\ Len(produced[k]) > ResponseCap
    /\ send_res[id] = "Suspended"

\* the i-th item of the LineStream of k, given that run_actor sent evs
ItemAgrees(it, i, evs) ==
  IF i > Len(evs)
  THEN it = BrokenPipe
  ELSE /\ it.item = "None" <=> evs[i] = Done("Ok")
       /\ (evs[i].type = "Done" /\ evs[i].res # "Ok") => it.item = evs[i].res
       /\ evs[i].type = "Line" => it.item = "Ok" /\ it.n = evs[i].n

\* C35: a LineStream yields None only for the Done(Ok) run_actor sent for
\* its command, yields Done(Err(e)) as Some(Err(e)), and yields an Io
\* BrokenPipe error, never None, when the channel is closed with no event
\* left; so it does when run_actor terminated without sending a Done
C35_StreamEndsCleanlyOnlyAfterDoneOk ==
  \A k \in Streams : \A i \in 1..Len(yielded[k]) :
    ItemAgrees(yielded[k][i], i, produced[k])

\* run_actor terminated while the command was queued, and its stream
\* yielded the broken pipe
C35_Witness ==
  \E k \in Streams :
    /\ worker = "dead"
    /\ produced[k] = <<>>
    /\ send_res[k] = "Ok"
    /\ yielded[k] = <<BrokenPipe>>

\* zero or more Line events, then at most one Done, which is the last
ResponseShape(evs) ==
  \A i \in 1..Len(evs) : evs[i].type = "Done" <=> (i = Len(evs) /\ HasDoneIn(evs))

\* C34: the events of a command run_actor dequeued, whose receiver stays
\* open, are zero or more Line events and then exactly one Done; an event
\* is only sent for the command being served and not after its Done, the
\* command is left with its Done sent, and a command is only started when
\* none is being served (the sender of the one before is dropped)
C34_LinesThenExactlyOneDone ==
  [][/\ \A k \in 1..Len(sent') :
          /\ ResponseShape(sent'[k])
          /\ (rxOpen'[k] /\ decided'[k] # "none") => HasDone(k)'
     /\ \A k \in Ids :
          sent'[k] # sent[k] =>
            /\ cur = k \/ (cur = 0 /\ queue # <<>> /\ Head(queue) = k)
            /\ ~HasDone(k) /\ decided[k] = "none"
     /\ (cur' # cur /\ cur' # 0) => cur = 0]_vars

\* a command answered with two lines and its Done, and the next command
\* being served
C34_Witness ==
  \E k \in Ids :
    /\ rxOpen[k] /\ HasDone(k) /\ Len(sent[k]) = 3
    /\ cur # 0 /\ cur # k

\* ------------------------------------------------------------------------
\* Properties of the values the parser hands out.
\* ------------------------------------------------------------------------
\* the values returned so far by drain_output() and by finish(), followed
\* by those a drain_output() would return now
Returned ==
  IF presult.kind = "Ok" THEN drained \o presult.values
  ELSE drained \o drain_output(parser)

\* C38: the values returned by drain_output() and finish() are the direct
\* children of the single outer list, each once and in the order they were
\* completed; a token before the first '(' or after the closing ')' of the
\* outer list is not among them
C38_OnlyChildrenOfTheOuterList ==
  presult.kind \in {"none", "Ok"} => KindsOf(Returned) = Scan(Taken).kids

\* ------------------------------------------------------------------------
\* Properties of the SexpStream.
\* ------------------------------------------------------------------------
\* a new parser given the lines as one text
Parsed(lines) == take(ParserNew, Concat(lines))

LastItem(items) == items[Len(items)]

\* C36: once parser.take has failed on a line, the stream has yielded one
\* Err item with the parse error; every later poll yields None, gives no
\* line to the parser and does not poll the stream of lines
C36_ParseErrorEndsTheStream ==
  [][/\ ~Parsed(sx_fed).ok =>
          /\ LastItem(sx_items').item = "None"
          /\ sx_fed' = sx_fed /\ sx_lines' = sx_lines /\ sx_ended' = sx_ended
     /\ (Parsed(sx_fed).ok /\ ~Parsed(sx_fed').ok) =>
          /\ LastItem(sx_items').item = "Err"
          /\ LastItem(sx_items').err = ParseError(Parsed(sx_fed').err)]_vars

\* take() failed on a line, the stream yielded the error and then None
\* twice, with lines left in the inner stream
C36_Witness ==
  /\ ~Parsed(sx_fed).ok
  /\ sx_lines # <<>>
  /\ Len(sx_items) >= 3
  /\ sx_items[Len(sx_items) - 2].item = "Err"
  /\ sx_items[Len(sx_items) - 1].item = "None"
  /\ LastItem(sx_items).item = "None"

IsValueItem(it) == it.item = "Ok"

IsTerminalItem(it) == it.item # "Ok"

\* the values of the Some(Ok(value)) items, in order
ValuesOf(items) ==
  LET oks == SelectSeq(items, IsValueItem) IN
    [i \in 1..Len(oks) |-> oks[i].value[1]]

\* the lines given to the parser that it took without an error: all of
\* them, or all but the last
GoodLines ==
  IF Parsed(sx_fed).ok THEN sx_fed ELSE SubSeq(sx_fed, 1, Len(sx_fed) - 1)

\* the inner stream has ended cleanly
CleanEnd == sx_ended /\ sx_end = NoError

\* the values the parser returns for the lines it took, those of finish()
\* included after a clean end
ExpectedValues(p) ==
  IF CleanEnd /\ finish(p).kind = "Ok" THEN finish(p).values ELSE p.output

\* the items that are not values: an error or None first, then None only;
\* the first is the error of the inner stream unchanged when it ended
\* with one, and a parse error when it ended cleanly on an incomplete form
TerminalsAgree(ts, p) ==
  /\ \A i \in 2..Len(ts) : ts[i].item = "None"
  /\ (ts # <<>> /\ sx_ended /\ sx_end # NoError) =>
       (ts[1].item = "Err" /\ ts[1].err = sx_end)
  /\ (ts # <<>> /\ CleanEnd /\ finish(p).kind = "FinishErr") =>
       (ts[1].item = "Err" /\ ts[1].err = ParseError(finish(p).err))
  /\ (ts # <<>> /\ CleanEnd /\ finish(p).kind = "Ok") => ts[1].item = "None"

\* C37: the values yielded so far, followed by those still pending, are the
\* values the parser completed for the lines taken, in the order completed;
\* when an item that is not a value is yielded, every value of the lines
\* before has been yielded and none follows; a stream of lines that ends
\* with an error yields that error unchanged, then None, even with a form
\* incomplete; a clean end with a form incomplete yields a parse error
C37_ChildrenInOrderThenTheEnd ==
  LET p == Parsed(GoodLines).p IN
    /\ ValuesOf(sx_items) \o Reverse(sx_pending) = ExpectedValues(p)
    /\ \A i \in 1..Len(sx_items) :
         IsTerminalItem(sx_items[i]) =>
           /\ sx_pending = <<>>
           /\ \A j \in (i + 1)..Len(sx_items) : IsTerminalItem(sx_items[j])
    /\ TerminalsAgree(SelectSeq(sx_items, IsTerminalItem), p)

\* children of two lines were yielded, then the stream of lines ended with
\* an error while a list was open, and the stream yielded it and then None
C37_Witness ==
  /\ sx_ended /\ sx_end # NoError
  /\ Len(sx_fed) >= 2
  /\ Len(ValuesOf(sx_items)) >= 2
  /\ Parsed(sx_fed).ok /\ Parsed(sx_fed).p.stack # <<>>
  /\ Len(sx_items) >= 2
  /\ sx_items[Len(sx_items) - 1].err = sx_end
  /\ LastItem(sx_items).item = "None"

\* ------------------------------------------------------------------------
\* Shape of the account tree.
\* ------------------------------------------------------------------------
\* every child of a node at depth d has an account of d + 1 segments that
\* starts with the account of the node, no two children of a node have the
\* same account, and so on below
RECURSIVE WellShaped(_, _)
ChildrenWellShaped(node, d) ==
  \A i \in 1..Len(node.children) :
    /\ Len(node.children[i].account) = d + 1
    /\ SubSeq(node.children[i].account, 1, d) = node.account
    /\ \A j \in 1..Len(node.children) :
         node.children[j].account = node.children[i].account => j = i
    /\ WellShaped(node.children[i], d + 1)

WellShaped(node, d) == ChildrenWellShaped(node, d)

\* the children a node had are still there, at their places and in their
\* order, and so on below: what is new stands behind
RECURSIVE KeepsOrder(_, _)
ChildrenKeepOrder(old, new) ==
  /\ Len(new.children) >= Len(old.children)
  /\ \A i \in 1..Len(old.children) :
       /\ new.children[i].account = old.children[i].account
       /\ KeepsOrder(old.children[i], new.children[i])

KeepsOrder(old, new) == ChildrenKeepOrder(old, new)

\* C39: every node at depth d >= 1 has an account of exactly d segments,
\* the first d - 1 of them the account of its parent; no two siblings have
\* the same account; the children of a node stand in the order in which
\* they were first inserted, that is, an operation other than clear()
\* leaves the children where they are and puts a new one behind them
C39_TreeShape ==
  [][/\ WellShaped(tree', 0)
     /\ tree'.children = <<>> \/ KeepsOrder(tree, tree')]_vars

\* two branches below one node, the one inserted first standing first
\* though its account sorts last
C39_Witness ==
  /\ tree.children # <<>>
  /\ Len(tree.children[1].children) = 2
  /\ tree.children[1].children[1].account = <<"assets", "cash">>
  /\ tree.children[1].children[2].account = <<"assets", "bank">>
  /\ tree.children[1].children[2].children # <<>>

\* ------------------------------------------------------------------------
\* Property of the execute() calls of ledger-cli.
\* ------------------------------------------------------------------------
\* C40: the stream of an execute() call receives the output of its own
\* command only: every chunk its thread reads, the one with the prompt
\* included, was printed by ledger in answer to its command line
C40_EachStreamGetsItsOwnOutput ==
  \A t \in Calls : \A i \in 1..Len(th_got[t]) : th_got[t][i].call = t

====
